---- MODULE Spec2Model ----
(***************************************************************************)
(* The user-space virtual memory system of homework/CS24/cs24hw8           *)
(* (virtualmem.c): the page table, the swap file, the live mappings of the *)
(* simulated address range, and the two signal handlers.  Every handler is *)
(* one action; the functions it calls are operators over a record of the   *)
(* program's globals, applied in the order of the code.  abort() and a     *)
(* failed assert() end the process: the record's field aborted is set and  *)
(* every later step of the handler is skipped.                             *)
(*                                                                         *)
(* Spec follows the handlers from delivery to return in one step each.     *)
(* MachineSpec follows the application's loads and stores and the kernel's *)
(* delivery of SIGSEGV and SIGALRM under the signal masks vmem_init()      *)
(* installs, with the SIGSEGV handler in progress between its entry and    *)
(* its return.  ApiSpec adds direct calls of the mapper's functions.       *)
(***************************************************************************)
EXTENDS Integers, Sequences, FiniteSets, TLC

\* ------------------------------------------------------------------ sizes
\* virtualmem.h is not part of the sources at hand: the page count is the
\* one of the specification's scenario, the page size the smallest that
\* keeps a slot's offset (page * PAGE_SIZE) different from its page number.
NUM_PAGES == 4
PAGE_SIZE == 2

VIRTUALMEM_ADDR_START == 536870912

\* Bounds of the model.
MaxByte == 1
MaxFaults == 7
MaxBudget == 2

Pages == 0 .. (NUM_PAGES - 1)
Bytes == 0 .. MaxByte

\* The byte 'x' that vmem_init writes to extend the swap file.
SentinelByte == 120

PAGEPERM_NONE == "PAGEPERM_NONE"
PAGEPERM_READ == "PAGEPERM_READ"
PAGEPERM_RDWR == "PAGEPERM_RDWR"
PagePerms == {PAGEPERM_NONE, PAGEPERM_READ, PAGEPERM_RDWR}

PROT_NONE == {}
PROT_READ == {"PROT_READ"}
PROT_WRITE == {"PROT_WRITE"}

SEGV_MAPERR == "SEGV_MAPERR"
SEGV_ACCERR == "SEGV_ACCERR"

\* A page-table entry, all bits zero (memset in vmem_init, clear_page_entry).
ZeroPTE ==
    [resident |-> FALSE, accessed |-> FALSE, dirty |-> FALSE,
     perm |-> PAGEPERM_NONE]

\* A page of zero bytes; the byte at offset o of a page is its element o+1.
ZeroPage == [i \in 1 .. PAGE_SIZE |-> 0]

\* ------------------------------------------------------------------ state
VARIABLES
    page_table,     \* page -> entry
    num_resident,   \* the resident counter
    max_resident,   \* the budget given to vmem_init
    num_faults,     \* SIGSEGVs handled in range
    num_loads,      \* map_page() calls completed
    swapfile,       \* the bytes of the swap file, byte at offset o is swapfile[o+1]
    fd_offset,      \* the file position of fd_swapfile
    mapped,         \* page -> whether the page's address range is mapped
    prot,           \* page -> the live protection of a mapped page
    mem,            \* page -> the bytes of a mapped page
    aborted,        \* the process has called abort()
    trace,          \* what the last handler invocation did, in order
    written,        \* page -> the bytes the application last stored in it
    sigmask,        \* the signals blocked in the running context
    sigpending,     \* the signals raised and not yet delivered
    handling,       \* the signal handler in progress, its signal and siginfo
    semp,           \* the semaphore: its count, the head and the tail of
                    \* its queue, and the thread_node structures allocated
    thread,         \* thread -> its state and the statement it is at
    current,        \* the running thread
    ready_queue,    \* the queue of the threads ready to run: head, tail
    blocked_queue,  \* the queue of the blocked threads: head, tail
    scheduler_lock, \* the scheduler lock: 1 when held
    run,            \* main, running, or how the process ended
    num_ops,        \* library calls begun by the threads
    num_unblocks,   \* calls of sthread_unblock() begun by the threads
    called,         \* the library functions the threads have called
    access,         \* the load or store the application is executing
    call            \* the function the application has called: its
                    \* statements, the next one, the ticks delivered in it

vars ==
    <<page_table, num_resident, max_resident, num_faults, num_loads, swapfile,
      fd_offset, mapped, prot, mem, aborted, trace, written,
      sigmask, sigpending, handling,
      semp, thread, current, ready_queue, blocked_queue, scheduler_lock, run,
      num_ops, num_unblocks, called, access, call>>

\* The kernel's signal state of the process.
sig_vars == <<sigmask, sigpending, handling>>

\* The globals as one record, threaded through the handler's calls.
Globals ==
    [page_table |-> page_table, num_resident |-> num_resident,
     max_resident |-> max_resident, num_faults |-> num_faults,
     num_loads |-> num_loads, swapfile |-> swapfile, fd_offset |-> fd_offset,
     mapped |-> mapped, prot |-> prot, mem |-> mem, aborted |-> aborted,
     trace |-> trace]

Install(s) ==
    /\ page_table' = s.page_table
    /\ num_resident' = s.num_resident
    /\ max_resident' = s.max_resident
    /\ num_faults' = s.num_faults
    /\ num_loads' = s.num_loads
    /\ swapfile' = s.swapfile
    /\ fd_offset' = s.fd_offset
    /\ mapped' = s.mapped
    /\ prot' = s.prot
    /\ mem' = s.mem
    /\ aborted' = s.aborted
    /\ trace' = s.trace

\* ---------------------------------------------------------------- tracing
\* One entry of the trace: the operation, its page (or address), its
\* argument and data, and the page table, the counters, the live mappings
\* and the file position as they are when the operation is invoked.
Event(s, ev, page, arg, data) ==
    [ev |-> ev, page |-> page, arg |-> arg, data |-> data,
     pt |-> s.page_table, nres |-> s.num_resident, mapped |-> s.mapped,
     prot |-> s.prot, off |-> s.fd_offset, faults |-> s.num_faults,
     loads |-> s.num_loads]

Log(s, ev, page, arg, data) ==
    [s EXCEPT !.trace = Append(@, Event(s, ev, page, arg, data))]

\* abort(), and a failed assert().
Abort(s) == [Log(s, "abort", 0, "", <<>>) EXCEPT !.aborted = TRUE]

\* ------------------------------------------------------- helper functions
vmem_start == VIRTUALMEM_ADDR_START
vmem_end == vmem_start + (NUM_PAGES * PAGE_SIZE)

page_to_addr(page) == vmem_start + page * PAGE_SIZE

addr_to_page(addr) == (addr - vmem_start) \div PAGE_SIZE

\* ------------------------------------------------------------- page table
\* A clear_page_entry() that clears the resident bit alone.
clear_page_entry_resident_only(s, page) ==
    [Log(s, "clear_page_entry", page, "", <<>>)
        EXCEPT !.page_table[page].resident = FALSE]

\* A clear_page_entry() that leaves the accessed bit as it is.
clear_page_entry_keeps_accessed(s, page) ==
    [Log(s, "clear_page_entry", page, "", <<>>)
        EXCEPT !.page_table[page] =
                   [ZeroPTE EXCEPT !.accessed = s.page_table[page].accessed]]

clear_page_entry(s, page) ==
    [Log(s, "clear_page_entry", page, "", <<>>)
        EXCEPT !.page_table[page] = ZeroPTE]

set_page_resident(s, page) == [s EXCEPT !.page_table[page].resident = TRUE]
is_page_resident(s, page) == s.page_table[page].resident

set_page_accessed(s, page) == [s EXCEPT !.page_table[page].accessed = TRUE]
clear_page_accessed(s, page) == [s EXCEPT !.page_table[page].accessed = FALSE]

set_page_dirty(s, page) == [s EXCEPT !.page_table[page].dirty = TRUE]
clear_page_dirty(s, page) == [s EXCEPT !.page_table[page].dirty = FALSE]
is_page_dirty(s, page) == s.page_table[page].dirty

get_page_permission(s, page) == s.page_table[page].perm

\* A pageperm_to_mmap() whose read-write case leaves PROT_WRITE out.
pageperm_to_mmap_write_forgotten(perm) ==
    CASE perm = PAGEPERM_NONE -> PROT_NONE
      [] perm = PAGEPERM_READ -> PROT_READ
      [] perm = PAGEPERM_RDWR -> PROT_READ

pageperm_to_mmap(perm) ==
    CASE perm = PAGEPERM_NONE -> PROT_NONE
      [] perm = PAGEPERM_READ -> PROT_READ
      [] perm = PAGEPERM_RDWR -> PROT_READ \cup PROT_WRITE

\* ------------------------------------------------------------- statements
\* A function of virtualmem.c is the sequence of its statements.  A
\* statement is its operation, the page it works on, a permission and a
\* number (a file offset, a count of statements, a budget).
Stmt(op, page, arg, n) == [op |-> op, page |-> page, arg |-> arg, n |-> n]

\* A set_page_permission() that writes the entry before it calls mprotect().
set_page_permission_table_first(page, perm) ==
    <<Stmt("set_permission", page, perm, 0), Stmt("mprotect", page, perm, 0)>>

\* A set_page_permission() that writes the entry and leaves the live
\* protection as it is.
set_page_permission_table_only(page, perm) ==
    <<Stmt("set_permission", page, perm, 0)>>

\* set_page_permission(page, perm): mprotect() first; the entry is written
\* only after it succeeded.
set_page_permission(page, perm) ==
    <<Stmt("mprotect", page, perm, 0), Stmt("set_permission", page, perm, 0)>>

\* -------------------------------------------------------------- swap file
Min(a, b) == IF a < b THEN a ELSE b
Max(a, b) == IF a > b THEN a ELSE b

\* write(fd, data, Len(data)) at file position off: the file grows to hold
\* the data, a gap left by a seek beyond its end reads as zero bytes.
FileWrite(file, off, data) ==
    [i \in 1 .. Max(Len(file), off + Len(data)) |->
        IF i > off /\ i <= off + Len(data) THEN data[i - off]
        ELSE IF i <= Len(file) THEN file[i]
        ELSE 0]

\* read(fd, buf, n) at file position off: the bytes there, fewer than n at
\* the end of the file.
FileRead(file, off, n) ==
    [i \in 1 .. Min(n, Max(0, Len(file) - off)) |-> file[off + i]]

\* The slot of a page in the swap file, as stored.
Slot(file, page) == FileRead(file, page * PAGE_SIZE, PAGE_SIZE)

\* --------------------------------------------------------- initialization
\* The globals of a process that has not called vmem_init(): the statics
\* are zero, no swap file is open and nothing is mapped in the range.
ProcessStart ==
    [page_table |-> [p \in Pages |-> ZeroPTE],
     num_resident |-> 0,
     max_resident |-> 0,
     num_faults |-> 0,
     num_loads |-> 0,
     swapfile |-> <<>>,
     fd_offset |-> 0,
     mapped |-> [p \in Pages |-> FALSE],
     prot |-> [p \in Pages |-> PROT_NONE],
     mem |-> [p \in Pages |-> ZeroPage],
     aborted |-> FALSE,
     trace |-> <<>>]

\* vmem_init(_max_resident): the counters, the cleared page table, a newly
\* created swap file extended by one byte written at offset
\* NUM_PAGES * PAGE_SIZE.  num_loads is a static the function does not
\* assign, and the function maps and unmaps nothing: on a second call both
\* stay as they are.
vmem_init(_max_resident) ==
    <<Stmt("num_resident = 0", 0, "", 0),
      Stmt("max_resident =", 0, "", _max_resident),
      Stmt("num_faults = 0", 0, "", 0),
      Stmt("memset", 0, "", 0),
      Stmt("open", 0, "", 0),
      Stmt("lseek", 0, "", NUM_PAGES * PAGE_SIZE),
      Stmt("write_sentinel", 0, "", 0)>>

\* ------------------------------------------------------------ page mapper
\* A map_page() that forgets to count the page it maps.
count_resident_forgotten(s) == s

\* num_resident++ in map_page.
count_resident(s) == [s EXCEPT !.num_resident = @ + 1]

\* A budget check that lets one page too many in.
over_budget_by_two(s) == s.num_resident > s.max_resident + 1

\* if (num_resident > max_resident) in map_page, after num_resident++.
over_budget(s) == s.num_resident > s.max_resident

\* map_page(page, initial_perm): the assertion and the budget check; step
\* 1, mmap(); step 2, seek to the slot and read it into the page; step 3,
\* resident, then the initial permission; the load is counted and the
\* policy told.
map_page(page, initial_perm) ==
    <<Stmt("assert_not_resident", page, "", 0),
      Stmt("num_resident++", page, "", 0),
      Stmt("check_budget", page, "", 0),
      Stmt("mmap", page, PAGEPERM_RDWR, 0),
      Stmt("lseek", page, "", page * PAGE_SIZE),
      Stmt("read", page, "", 0),
      Stmt("set_page_resident", page, "", 0)>>
        \o set_page_permission(page, initial_perm)
        \o <<Stmt("assert_resident", page, "", 0),
             Stmt("num_loads++", page, "", 0),
             Stmt("policy_page_mapped", page, "", 0)>>

\* A flush that seeks to byte offset `page`, not to the page's slot.
flush_page_seek_page_number(page) ==
    <<Stmt("lseek", page, "", page)>>
        \o set_page_permission(page, PAGEPERM_READ)
        \o <<Stmt("write", page, "", 0)>>

\* The flush of a dirty page in unmap_page: seek to the slot, make the page
\* readable, write its bytes.
flush_page(page) ==
    <<Stmt("lseek", page, "", page * PAGE_SIZE)>>
        \o set_page_permission(page, PAGEPERM_READ)
        \o <<Stmt("write", page, "", 0)>>

\* A page that is flushed whether or not it is dirty.
needs_flush_always(s, page) == TRUE

\* Only a dirty page is flushed.
needs_flush(s, page) == is_page_dirty(s, page)

\* An unmap_page() that tells the policy before it counts the page out.
unmap_page_done_notifies_first(page) ==
    <<Stmt("policy_page_unmapped", page, "", 0),
      Stmt("num_resident--", page, "", 0)>>

\* An unmap_page() that does not count the page out.
unmap_page_done_count_kept(page) ==
    <<Stmt("policy_page_unmapped", page, "", 0)>>

\* The end of unmap_page: num_resident--, then policy_page_unmapped(page).
unmap_page_done(page) ==
    <<Stmt("num_resident--", page, "", 0),
      Stmt("policy_page_unmapped", page, "", 0)>>

\* unmap_page(page): the assertions; step 1, the flush, only if the page is
\* dirty; step 2, munmap(); step 3, the entry is cleared.
unmap_page(page) ==
    <<Stmt("assert_num_resident", page, "", 0),
      Stmt("assert_resident", page, "", 0),
      Stmt("if_dirty", page, "", Len(flush_page(page)))>>
        \o flush_page(page)
        \o <<Stmt("munmap", page, "", 0),
             Stmt("clear_page_entry", page, "", 0),
             Stmt("assert_not_resident", page, "", 0)>>
        \o unmap_page_done(page)

\* What one statement does to the globals.
Exec(s, st) ==
    LET page == st.page
    IN
    CASE st.op = "assert_not_resident" ->
            IF is_page_resident(s, page) THEN Abort(s) ELSE s
      [] st.op = "assert_resident" ->
            IF ~is_page_resident(s, page) THEN Abort(s) ELSE s
      [] st.op = "assert_num_resident" ->
            IF ~(s.num_resident > 0) THEN Abort(s) ELSE s
      [] st.op = "num_resident++" -> count_resident(s)
      [] st.op = "check_budget" ->
            IF over_budget(s) THEN Abort(s) ELSE s
      \* mmap(MAP_FIXED | MAP_SHARED | MAP_ANONYMOUS): a page of zeros with
      \* read-write protection.
      [] st.op = "mmap" ->
            [Log(s, "mmap", page, st.arg, <<>>)
                EXCEPT !.mapped[page] = TRUE,
                       !.prot[page] = pageperm_to_mmap(st.arg),
                       !.mem[page] = ZeroPage]
      \* lseek(fd_swapfile, n, SEEK_SET)
      [] st.op = "lseek" -> [s EXCEPT !.fd_offset = st.n]
      \* read(fd_swapfile, page_to_addr(page), PAGE_SIZE); fewer bytes than
      \* a page abort.
      [] st.op = "read" ->
            LET got == FileRead(s.swapfile, s.fd_offset, PAGE_SIZE)
                s1 == [Log(s, "read", page, "", got)
                          EXCEPT !.fd_offset = @ + Len(got),
                                 !.mem[page] =
                                    [i \in 1 .. PAGE_SIZE |->
                                        IF i <= Len(got) THEN got[i] ELSE @[i]]]
            IN  IF Len(got) # PAGE_SIZE THEN Abort(s1) ELSE s1
      [] st.op = "set_page_resident" -> set_page_resident(s, page)
      \* mprotect() on the page's range: it fails (ENOMEM) when the range
      \* is not mapped, and the process aborts.
      [] st.op = "mprotect" ->
            IF ~s.mapped[page] THEN Abort(s)
            ELSE [Log(s, "set_page_permission", page, st.arg, <<>>)
                     EXCEPT !.prot[page] = pageperm_to_mmap(st.arg)]
      \* page_table[page] = (page_table[page] & ~PAGEPERM_MASK) | perm
      [] st.op = "set_permission" ->
            [s EXCEPT !.page_table[page].perm = st.arg]
      [] st.op = "num_loads++" -> [s EXCEPT !.num_loads = @ + 1]
      [] st.op = "policy_page_mapped" ->
            Log(s, "policy_page_mapped", page, "", <<>>)
      \* if (is_page_dirty(page)): the test changes nothing.
      [] st.op = "if_dirty" -> s
      \* write(fd_swapfile, page_to_addr(page), PAGE_SIZE) at the file
      \* position.
      [] st.op = "write" ->
            [Log(s, "write", page, "", s.mem[page])
                EXCEPT !.swapfile = FileWrite(@, s.fd_offset, s.mem[page]),
                       !.fd_offset = @ + PAGE_SIZE]
      [] st.op = "munmap" ->
            [Log(s, "munmap", page, "", <<>>)
                EXCEPT !.mapped[page] = FALSE,
                       !.prot[page] = PROT_NONE,
                       !.mem[page] = ZeroPage]
      [] st.op = "clear_page_entry" -> clear_page_entry(s, page)
      [] st.op = "num_resident--" -> [s EXCEPT !.num_resident = @ - 1]
      [] st.op = "policy_page_unmapped" ->
            Log(s, "policy_page_unmapped", page, "", <<>>)
      [] st.op = "set_page_accessed" -> set_page_accessed(s, page)
      [] st.op = "clear_page_accessed" -> clear_page_accessed(s, page)
      [] st.op = "set_page_dirty" -> set_page_dirty(s, page)
      [] st.op = "clear_page_dirty" -> clear_page_dirty(s, page)
      [] st.op = "num_resident = 0" -> [s EXCEPT !.num_resident = 0]
      [] st.op = "max_resident =" -> [s EXCEPT !.max_resident = st.n]
      [] st.op = "num_faults = 0" -> [s EXCEPT !.num_faults = 0]
      \* memset(page_table, 0, sizeof(page_table))
      [] st.op = "memset" ->
            [s EXCEPT !.page_table = [p \in Pages |-> ZeroPTE]]
      \* open(swapfile, O_RDWR | O_CREAT) of a new name, and unlink().
      [] st.op = "open" -> [s EXCEPT !.swapfile = <<>>, !.fd_offset = 0]
      \* write(fd_swapfile, "x", 1)
      [] st.op = "write_sentinel" ->
            [s EXCEPT !.swapfile = FileWrite(@, s.fd_offset, <<SentinelByte>>),
                      !.fd_offset = @ + 1]

\* The statement at pc of these statements is executed: the globals after
\* it and the statement that follows.  The statements of the flush are
\* passed over when the page is not dirty.
Step(s, prog, pc) ==
    [s |-> Exec(s, prog[pc]),
     pc |-> IF prog[pc].op = "if_dirty" /\ ~needs_flush(s, prog[pc].page)
            THEN pc + 1 + prog[pc].n
            ELSE pc + 1]

\* The statements from pc on run to the return of the function, or to the
\* abort of the process, with no signal delivered in between.
RECURSIVE Run(_, _, _)
Run(s, prog, pc) ==
    IF s.aborted \/ pc > Len(prog) THEN s
    ELSE LET r == Step(s, prog, pc)
         IN  Run(r.s, prog, r.pc)

\* ------------------------------------------------------ replacement policy
\* The policy module is outside these sources.  It is taken to keep its
\* contract (it names a resident page whenever there is one) and to leave
\* the page table alone; with no page resident it can only name some page.
ResidentPages(s) == {p \in Pages : is_page_resident(s, p)}

choose_victim_page(s) ==
    IF ResidentPages(s) # {} THEN ResidentPages(s) ELSE Pages

\* --------------------------------------------------------- signal handlers
\* The eviction in the SEGV_MAPERR branch, taken when the resident counter
\* equals max_resident: the policy's victim, asserted resident, is unmapped.
evict_victim(s, victim) ==
    LET s1 == Log(s, "choose_victim_page", victim, "", <<>>)
    IN  IF ~is_page_resident(s1, victim) THEN Abort(s1)
        ELSE LET s2 == Run(s1, unmap_page(victim), 1)
             IN  IF s2.aborted THEN s2
                 ELSE IF is_page_resident(s2, victim) THEN Abort(s2)
                 ELSE s2

\* A handler that evicts whenever some page is resident.
at_capacity_or_any_resident(s) == s.num_resident >= 1

\* if (num_resident == max_resident)
at_capacity(s) == s.num_resident = s.max_resident

\* A SEGV_MAPERR branch that loads the page readable.
handle_maperr_loads_readable(s, page, victim) ==
    IF ~(s.num_resident <= s.max_resident) THEN Abort(s)
    ELSE LET s1 == IF at_capacity(s)
                   THEN evict_victim(s, victim) ELSE s
         IN  IF s1.aborted THEN s1
             ELSE IF ~(s1.num_resident < s1.max_resident) THEN Abort(s1)
             ELSE Run(s1, map_page(page, PAGEPERM_READ), 1)

\* The SEGV_MAPERR branch of sigsegv_handler.
handle_maperr(s, page, victim) ==
    IF ~(s.num_resident <= s.max_resident) THEN Abort(s)
    ELSE LET s1 == IF at_capacity(s)
                   THEN evict_victim(s, victim) ELSE s
         IN  IF s1.aborted THEN s1
             ELSE IF ~(s1.num_resident < s1.max_resident) THEN Abort(s1)
             ELSE Run(s1, map_page(page, PAGEPERM_NONE), 1)

\* A handler that gives read-write access at the first permission fault.
handle_accerr_straight_to_rdwr(s, page) ==
    LET s1 == set_page_accessed(s, page)
        perm == get_page_permission(s1, page)
    IN  CASE perm \in {PAGEPERM_NONE, PAGEPERM_READ} ->
                LET s2 == Run(s1, set_page_permission(page, PAGEPERM_RDWR), 1)
                IN  IF s2.aborted THEN s2 ELSE set_page_dirty(s2, page)
          [] perm = PAGEPERM_RDWR -> Abort(s1)

\* A handler that widens READ to READ-WRITE and forgets the dirty bit.
handle_accerr_dirty_forgotten(s, page) ==
    LET s1 == set_page_accessed(s, page)
        perm == get_page_permission(s1, page)
    IN  CASE perm = PAGEPERM_NONE ->
                Run(s1, set_page_permission(page, PAGEPERM_READ), 1)
          [] perm = PAGEPERM_READ ->
                Run(s1, set_page_permission(page, PAGEPERM_RDWR), 1)
          [] perm = PAGEPERM_RDWR -> Abort(s1)

\* A handler that marks a page without access as accessed and leaves it
\* without access.
handle_accerr_none_not_widened(s, page) ==
    LET s1 == set_page_accessed(s, page)
        perm == get_page_permission(s1, page)
    IN  CASE perm = PAGEPERM_NONE -> s1
          [] perm = PAGEPERM_READ ->
                LET s2 == Run(s1, set_page_permission(page, PAGEPERM_RDWR), 1)
                IN  IF s2.aborted THEN s2 ELSE set_page_dirty(s2, page)
          [] perm = PAGEPERM_RDWR -> Abort(s1)

\* The SEGV_ACCERR branch of sigsegv_handler.
handle_accerr(s, page) ==
    LET s1 == set_page_accessed(s, page)
        perm == get_page_permission(s1, page)
    IN  CASE perm = PAGEPERM_NONE ->
                Run(s1, set_page_permission(page, PAGEPERM_READ), 1)
          [] perm = PAGEPERM_READ ->
                LET s2 == Run(s1, set_page_permission(page, PAGEPERM_RDWR), 1)
                IN  IF s2.aborted THEN s2 ELSE set_page_dirty(s2, page)
          [] perm = PAGEPERM_RDWR -> Abort(s1)

\* A handler that forgets to count the fault.
count_fault_forgotten(s) == s

\* num_faults++ in sigsegv_handler.
count_fault(s) == [s EXCEPT !.num_faults = @ + 1]

\* A handler that counts the fault before it looks at the address.
sigsegv_enter_counts_first(s0, addr, code) ==
    LET s == Log([s0 EXCEPT !.trace = <<>>], "SIGSEGV", addr, code, <<>>)
    IN  IF addr < vmem_start \/ addr >= vmem_end THEN Abort(count_fault(s))
        ELSE count_fault(s)

\* The head of sigsegv_handler: si_addr is addr, si_code is code.  An
\* address outside the range aborts; a fault inside it is counted.
sigsegv_enter(s0, addr, code) ==
    LET s == Log([s0 EXCEPT !.trace = <<>>], "SIGSEGV", addr, code, <<>>)
    IN  IF addr < vmem_start \/ addr >= vmem_end THEN Abort(s)
        ELSE count_fault(s)

\* The rest of sigsegv_handler, from the page of the address on; victim is
\* what choose_victim_page() returns if it is called.
\* A handler that gives read access in the trap that loads the page.
sigsegv_resolve_load_and_widen(s1, addr, code, victim) ==
    IF s1.aborted THEN s1
    ELSE
    LET page == addr_to_page(addr)
    IN  IF ~(page < NUM_PAGES) THEN Abort(s1)
        ELSE IF code \notin {SEGV_MAPERR, SEGV_ACCERR} THEN Abort(s1)
        ELSE IF code = SEGV_MAPERR
        THEN LET s2 == handle_maperr(s1, page, victim)
             IN  IF s2.aborted THEN s2 ELSE handle_accerr(s2, page)
        ELSE handle_accerr(s1, page)

sigsegv_resolve(s1, addr, code, victim) ==
    IF s1.aborted THEN s1
    ELSE
    LET page == addr_to_page(addr)
    IN  IF ~(page < NUM_PAGES) THEN Abort(s1)
        ELSE IF code \notin {SEGV_MAPERR, SEGV_ACCERR} THEN Abort(s1)
        ELSE IF code = SEGV_MAPERR THEN handle_maperr(s1, page, victim)
        ELSE handle_accerr(s1, page)

\* sigsegv_handler, from its entry to its return.
sigsegv_handler(s0, addr, code, victim) ==
    sigsegv_resolve(sigsegv_enter(s0, addr, code), addr, code, victim)

\* sigalrm_handler: the tick goes to the policy, nothing else happens.
sigalrm_handler(s0) ==
    Log([s0 EXCEPT !.trace = <<>>], "policy_timer_tick", 0, "", <<>>)

\* ------------------------------------------------------------------ signals
SIGSEGV == "SIGSEGV"
SIGALRM == "SIGALRM"

\* A SIGSEGV action whose sa_mask is left empty.
sigsegv_sa_mask_empty == {}

\* The sa_mask of the SIGSEGV action: sigemptyset, then sigaddset SIGALRM.
sigsegv_sa_mask == {SIGALRM}

\* No handler is in progress: the application runs.
NoHandler == [sig |-> "none", addr |-> 0, code |-> "", mask |-> {}]

\* The signals blocked while the handler of sig runs, entered with the
\* signals of mask blocked: those, the action's sa_mask, and sig itself
\* (neither action sets SA_NODEFER).
handler_mask(sig, mask) ==
    mask \cup {sig}
         \cup (IF sig = SIGSEGV THEN sigsegv_sa_mask ELSE {})

\* ------------------------------------------------- sthread and semaphores
\* The user-level thread library (sthread.c) and its semaphores
\* (semaphore.c).  A thread is a number; NULL is no thread.
MaxThreads == 3
\* The library calls the threads begin, and how many of them may be calls
\* of sthread_unblock().
MaxOps == 5
MaxUnblocks == 1
MaxInit == 1

NULL == 0
Threads == 1 .. MaxThreads

ThreadRunning == "ThreadRunning"
ThreadReady == "ThreadReady"
ThreadBlocked == "ThreadBlocked"
ThreadFinished == "ThreadFinished"
\* A Thread structure not allocated yet, one that malloc() has handed out
\* and sthread_create() has not initialised yet, and one that has been
\* freed.
ThreadUnused == "unused"
ThreadAllocated == "allocated"
ThreadFreed == "freed"

\* A pointer value that is the address of no Thread structure.
Wild == MaxThreads + 1

\* The scheduler and the semaphore of the process.
thr_vars ==
    <<semp, thread, current, ready_queue, blocked_queue, scheduler_lock, run,
      num_ops, num_unblocks, called>>

\* The virtual memory of the process.
vm_vars ==
    <<page_table, num_resident, max_resident, num_faults, num_loads, swapfile,
      fd_offset, mapped, prot, mem, aborted, trace, written, access, call>>

\* The state of the thread library as one value, and its assignment.
SGlobals ==
    [semp |-> semp, thread |-> thread, current |-> current,
     ready_queue |-> ready_queue, blocked_queue |-> blocked_queue,
     scheduler_lock |-> scheduler_lock, run |-> run]

SInstall(s) ==
    /\ semp' = s.semp
    /\ thread' = s.thread
    /\ current' = s.current
    /\ ready_queue' = s.ready_queue
    /\ blocked_queue' = s.blocked_queue
    /\ scheduler_lock' = s.scheduler_lock
    /\ run' = s.run

\* A thread: its state, its links in the queue it is in (prev, next), the
\* statement it executes next (pc), the statement sthread_block() returns
\* to (ret), the thread it passes to sthread_unblock() or creates (arg),
\* the queue its queue_append works on (queue), the count it read in
\* semaphore_wait (seen), the locals new_thread of semaphore_wait and
\* old_head of semaphore_signal, and the value it has loaded from the
\* semaphore and not yet stored (loaded).  While the thread is inside
\* malloc() or free(): whether another call of malloc() or free() has run
\* meanwhile (raced), and the block of the same size that such a call has
\* handed out (clash).
NoThread ==
    [state |-> ThreadUnused, prev |-> NULL, next |-> NULL, pc |-> "idle",
     ret |-> "idle", arg |-> NULL, queue |-> "ready", seen |-> 0,
     new_thread |-> NULL, old_head |-> NULL, loaded |-> 0,
     raced |-> FALSE, clash |-> NULL]

\* The scheduler lock: taking it sets the flag, releasing it clears it; a
\* nested call does the same.
__sthread_lock(s) == [s EXCEPT !.scheduler_lock = 1]
__sthread_unlock(s) == [s EXCEPT !.scheduler_lock = 0]

\* The queue of this name, and the state with that queue replaced.
Queue(s, q) == IF q = "ready" THEN s.ready_queue ELSE s.blocked_queue

WithQueue(s, q, queue) ==
    IF q = "ready" THEN [s EXCEPT !.ready_queue = queue]
    ELSE [s EXCEPT !.blocked_queue = queue]

EmptyQueue == [head |-> NULL, tail |-> NULL]

\* A pointer that cannot be followed: NULL, an address that is no Thread
\* structure, or a Thread structure that has been freed.  To follow it is
\* undefined behaviour.
Dangling(s, threadp) ==
    \/ threadp = NULL
    \/ threadp \notin Threads
    \/ s.thread[threadp].state \in {ThreadUnused, ThreadFreed}

\* What following it does: through NULL the process is killed by the
\* host; in freed memory anything may be read or overwritten.
Undefined(s, threadp) ==
    [s EXCEPT !.run = IF threadp = NULL THEN "crashed" ELSE "undefined"]

queue_empty(queuep) == queuep.head = NULL

\* queue_append, the branch for an empty queue and the one for a queue with
\* a tail.
queue_append(s, q, threadp) ==
    LET tail == Queue(s, q).tail
    IN  IF Queue(s, q).head = NULL
        THEN WithQueue([s EXCEPT !.thread[threadp].prev = NULL,
                                 !.thread[threadp].next = NULL],
                       q, [head |-> threadp, tail |-> threadp])
        ELSE IF Dangling(s, tail) THEN Undefined(s, tail)
        ELSE WithQueue([s EXCEPT !.thread[tail].next = threadp,
                                 !.thread[threadp].prev = tail,
                                 !.thread[threadp].next = NULL],
                       q, [Queue(s, q) EXCEPT !.tail = threadp])

queue_add(s, threadp) ==
    CASE s.thread[threadp].state = ThreadReady ->
             queue_append(s, "ready", threadp)
      [] s.thread[threadp].state = ThreadBlocked ->
             queue_append(s, "blocked", threadp)
      [] OTHER -> [s EXCEPT !.run = "corrupted"]

\* The thread queue_take() returns, and the state it leaves.
queue_take(s, q) == Queue(s, q).head

queue_taken(s, q) ==
    LET threadp == Queue(s, q).head
    IN  IF threadp = NULL THEN s
        ELSE IF Dangling(s, threadp) THEN Undefined(s, threadp)
        ELSE IF threadp = Queue(s, q).tail THEN WithQueue(s, q, EmptyQueue)
        ELSE IF Dangling(s, s.thread[threadp].next) THEN Undefined(s, s.thread[threadp].next)
        ELSE WithQueue([s EXCEPT !.thread[s.thread[threadp].next].prev = NULL],
                       q, [Queue(s, q) EXCEPT !.head = s.thread[threadp].next])

\* queue_remove: the two neighbours are unlinked, then head and tail reset.
queue_remove(s, q, threadp) ==
    LET prev == s.thread[threadp].prev
        s1 == IF prev = NULL THEN s
              ELSE IF Dangling(s, prev) THEN Undefined(s, prev)
              ELSE [s EXCEPT !.thread[prev].next = s.thread[threadp].next]
        next == s1.thread[threadp].next
        s2 == IF next = NULL THEN s1
              ELSE IF Dangling(s1, next) THEN Undefined(s1, next)
              ELSE [s1 EXCEPT !.thread[next].prev = s1.thread[threadp].prev]
        s3 == IF Queue(s2, q).head = threadp
              THEN WithQueue(s2, q, [Queue(s2, q) EXCEPT
                                        !.head = s2.thread[threadp].next])
              ELSE s2
    IN  IF Queue(s3, q).tail = threadp
        THEN WithQueue(s3, q, [Queue(s3, q) EXCEPT
                                  !.tail = s3.thread[threadp].prev])
        ELSE s3

\* malloc() and free() are not reentrant.  The statements at which a
\* thread is inside one of them: sthread_create and the statements of
\* semaphore_wait and semaphore_signal that follow sthread_block() and
\* sthread_unblock() run with the scheduler lock free, so the timer can
\* switch to another thread while the heap is being changed.
HeapCalls ==
    {"create_stack_malloc", "create_thread_malloc", "wait_malloc",
     "signal_free_return"}

\* The threads that have been switched out inside malloc() or free().
InHeap(s) ==
    {t \in Threads :
        /\ t # s.current
        /\ s.thread[t].state \notin {ThreadUnused, ThreadFreed}
        /\ s.thread[t].pc \in HeapCalls}

\* A call of malloc() or free() is made while the calls of these threads
\* are in progress: the behaviour of each of them is undefined from here.
heap_raced(s, threads) ==
    [s EXCEPT !.thread =
        [t \in Threads |->
            IF t \in threads THEN [s.thread[t] EXCEPT !.raced = TRUE]
            ELSE s.thread[t]]]

\* The running thread enters malloc() or free(), statement pc.
heap_enter(s, pc) ==
    [heap_raced(s, InHeap(s)) EXCEPT
        !.thread[s.current].pc = pc,
        !.thread[s.current].raced = InHeap(s) # {},
        !.thread[s.current].clash = NULL]

\* malloc() has handed out block: a call for the same size that is in
\* progress in another thread may hand out the same block.
heap_given(s, pc, block) ==
    [s EXCEPT !.thread =
        [t \in Threads |->
            IF t \in InHeap(s) /\ s.thread[t].pc = pc
            THEN [s.thread[t] EXCEPT !.clash = block]
            ELSE s.thread[t]]]

\* The running thread returns from malloc() or free().
heap_leave(s) ==
    [s EXCEPT !.thread[s.current].raced = FALSE,
              !.thread[s.current].clash = NULL]

\* What a call of malloc() or free() that has raced with another can do
\* other than return: glibc finds its structures inconsistent and aborts,
\* or the heap is corrupted (a block is handed out that overlaps a block
\* in use: a stack, or a block of another size).
HeapFailures == {"aborted", "undefined"}

\* free(threadp->memory); free(threadp), with the scheduler lock held: the
\* calls that the timer interrupted are still in progress.
__sthread_delete(s, threadp) ==
    [heap_raced(s, InHeap(s)) EXCEPT !.thread[threadp].state = ThreadFreed]

\* A scheduler that leaves the state of the thread it chooses as it is.
run_thread_state_kept(s, next) == [s EXCEPT !.current = next]

\* current = queue_take(&ready_queue); current->state = ThreadRunning
run_thread(s, next) ==
    [s EXCEPT !.current = next, !.thread[next].state = ThreadRunning]

\* context is FALSE for the NULL context of the first call.
__sthread_scheduler(s, context) ==
    LET st == s.thread[s.current].state
        queued ==
            IF ~context THEN s
            ELSE LET sa == IF st = ThreadRunning
                           THEN [s EXCEPT !.thread[s.current].state =
                                              ThreadReady]
                           ELSE s
                 IN  IF sa.thread[sa.current].state # ThreadFinished
                     THEN queue_add(sa, sa.current)
                     ELSE __sthread_delete(sa, sa.current)
        next == queue_take(queued, "ready")
        taken == queue_taken(queued, "ready")
    IN  IF queued.run # "running" THEN queued
        ELSE IF taken.run # "running" THEN taken
        ELSE IF next = NULL
        THEN [taken EXCEPT !.current = NULL,
                           !.run = IF queue_empty(taken.blocked_queue)
                                   THEN "completed" ELSE "deadlocked"]
        ELSE run_thread(taken, next)

\* The context switch: the scheduler chooses the thread, which resumes where
\* it was switched out.  A thread switched out in a library call resumes at
\* that call's __sthread_unlock(); a thread that starts, or that the timer
\* had interrupted, resumes its own code with the lock released.
__sthread_schedule(s) ==
    LET s1 == __sthread_scheduler(s, TRUE)
    IN  IF s1.run # "running" THEN s1
        ELSE IF s1.thread[s1.current].pc \in {"yield_unlock", "block_unlock", "finish_unlock"} THEN s1
        ELSE __sthread_unlock(s1)

\* sthread_start(): the first call of the scheduler.
__sthread_start(s) ==
    __sthread_scheduler([s EXCEPT !.run = "running"], FALSE)

\* sthread_create() called by main() before sthread_start(): no thread runs
\* and no timer is armed yet, so the call is not interrupted.  queue_append
\* stores prev and next of the new structure before anything loads them.
sthread_create(s, threadp) ==
    queue_add([s EXCEPT !.thread[threadp] =
                            [NoThread EXCEPT !.state = ThreadReady]],
              threadp)

sthread_current(s) == s.current

\* The running thread goes on to this statement.
Goto(s, pc) == [s EXCEPT !.thread[s.current].pc = pc]

\* sthread_block() up to its call of the scheduler; the thread will resume
\* at the unlock and return to the statement ret.
sthread_block(s, ret) ==
    LET s1 == __sthread_lock(s)
        s2 == [s1 EXCEPT !.thread[s1.current].state = ThreadBlocked,
                         !.thread[s1.current].pc = "block_unlock",
                         !.thread[s1.current].ret = ret]
    IN  __sthread_schedule(s2)

\* The assertions of sthread_unblock() when the caller holds the lock (the
\* call in semaphore_signal): they read the Thread structure, which is
\* freed memory once the thread has been deleted.
unblock_asserted(s, threadp) ==
    IF threadp = NULL THEN [s EXCEPT !.run = "aborted"]
    ELSE IF s.thread[threadp].state = ThreadFreed
    THEN Undefined(s, threadp)
    ELSE IF s.thread[threadp].state # ThreadBlocked
    THEN [s EXCEPT !.run = "aborted"]
    ELSE s

\* The tests of the assertions when the lock is free: the running thread
\* goes on to the abort or to the rest of the function.
unblock_tested(s, threadp) ==
    IF threadp = NULL THEN Goto(s, "unblock_abort")
    ELSE IF s.thread[threadp].state = ThreadFreed
    THEN Undefined(s, threadp)
    ELSE IF s.thread[threadp].state # ThreadBlocked
    THEN Goto(s, "unblock_abort")
    ELSE Goto(s, "unblock_requeue")

\* The rest of sthread_unblock().
unblock_requeue(s, threadp) ==
    LET s1 == queue_remove(__sthread_lock(s), "blocked", threadp)
        s2 == [s1 EXCEPT !.thread[threadp].state = ThreadReady]
    IN  IF Dangling(s, threadp) THEN Undefined(s, threadp)
        ELSE IF s1.run # "running" THEN s1
        ELSE LET s3 == queue_add(s2, threadp)
             IN  IF s3.run # "running" THEN s3 ELSE __sthread_unlock(s3)

sthread_unblock(s, threadp) ==
    LET s1 == unblock_asserted(s, threadp)
    IN  IF s1.run # "running" THEN s1 ELSE unblock_requeue(s1, threadp)

\* The thread_node structures malloc() can hand out: more than the calls
\* of a run allocate.  A node is its thread, its next pointer and whether
\* it is allocated.
MaxNodes == MaxOps
Nodes == 1 .. MaxNodes

NodeUnused == "unused"
NodeLive == "live"
NodeFreed == "freed"

NoNode == [thread |-> NULL, next |-> NULL, state |-> NodeUnused]

\* A thread_node pointer that cannot be followed: NULL, or a node that has
\* been freed.
DanglingNode(s, nodep) ==
    nodep = NULL \/ s.semp.node[nodep].state # NodeLive

new_semaphore(init) ==
    [i |-> init, head |-> NULL, tail |-> NULL, made |-> TRUE,
     node |-> [n \in Nodes |-> NoNode]]

\* while (semp->i == 0)
count_is_zero_never(i) == FALSE
count_is_zero(i) == i = 0

\* The process before main() has called the library.
SthreadInit ==
    /\ semp = [i |-> 0, head |-> NULL, tail |-> NULL, made |-> FALSE,
               node |-> [n \in Nodes |-> NoNode]]
    /\ thread = [t \in Threads |-> NoThread]
    /\ current = NULL
    /\ ready_queue = EmptyQueue
    /\ blocked_queue = EmptyQueue
    /\ scheduler_lock = 0
    /\ run = "main"
    /\ num_ops = 0
    /\ num_unblocks = 0
    /\ called = {}

\* No function has been called by the application.
NoCall == [prog |-> <<>>, pc |-> 1, ticks |-> 0]

\* No access in progress.  An access in progress is its page, its kind
\* (load or store), the fault and load counters when it began, and whether
\* its page was resident then.
NoAccess ==
    [page |-> 0, kind |-> "none", faults |-> 0, loads |-> 0,
     resident |-> FALSE]

\* ----------------------------------------------------------------- actions
\* The addresses a fault may carry: the byte below the range, the byte at
\* its end, and one byte of every page (the first byte of the even pages, a
\* later byte of the odd ones).
Addrs ==
    {vmem_start - 1, vmem_end}
        \cup {page_to_addr(p) + (p % PAGE_SIZE) : p \in Pages}

Init ==
    \E mr \in 0 .. MaxBudget :
        LET s == Run(ProcessStart, vmem_init(mr), 1)
        IN  /\ page_table = s.page_table
            /\ num_resident = s.num_resident
            /\ max_resident = s.max_resident
            /\ num_faults = s.num_faults
            /\ num_loads = s.num_loads
            /\ swapfile = s.swapfile
            /\ fd_offset = s.fd_offset
            /\ mapped = s.mapped
            /\ prot = s.prot
            /\ mem = s.mem
            /\ aborted = s.aborted
            /\ trace = s.trace
            /\ written = [p \in Pages |-> ZeroPage]
            /\ sigmask = {}
            /\ sigpending = {}
            /\ handling = NoHandler
            /\ SthreadInit
            /\ access = NoAccess
            /\ call = NoCall

\* The faults the host can raise: outside the range either code; inside it
\* SEGV_MAPERR for an address that is not mapped, and SEGV_ACCERR for a mapped
\* one (a read without PROT_READ, a store without PROT_WRITE, an instruction
\* fetch from any of these pages, none of which is executable).
Deliverable(addr, code) ==
    IF addr < vmem_start \/ addr >= vmem_end THEN TRUE
    ELSE IF mapped[addr_to_page(addr)] THEN code = SEGV_ACCERR
    ELSE code = SEGV_MAPERR

\* A SIGSEGV is delivered and handled to its end.
SigSegv ==
    /\ ~aborted
    /\ num_faults < MaxFaults
    /\ \E addr \in Addrs, code \in {SEGV_MAPERR, SEGV_ACCERR}, victim \in choose_victim_page(Globals) :
           /\ Deliverable(addr, code)
           /\ Install(sigsegv_handler(Globals, addr, code, victim))
    /\ UNCHANGED written
    /\ UNCHANGED sig_vars
    /\ UNCHANGED <<thr_vars, access, call>>

\* A SIGALRM is delivered and handled to its end.
SigAlrm ==
    /\ ~aborted
    /\ Install(sigalrm_handler(Globals))
    /\ UNCHANGED written
    /\ UNCHANGED sig_vars
    /\ UNCHANGED <<thr_vars, access, call>>

\* The byte of a page the application stores to: the first byte of the even
\* pages, a later byte of the odd ones.
StoreOffset(page) == page % PAGE_SIZE

\* The application stores a byte in a page whose live protection allows it
\* (no fault is raised).
AppWrite ==
    /\ ~aborted
    /\ handling = NoHandler
    /\ \E page \in Pages, b \in Bytes :
           LET o == StoreOffset(page) IN
           /\ mapped[page]
           /\ PROT_WRITE \subseteq prot[page]
           /\ mem' = [mem EXCEPT ![page][o + 1] = b]
           /\ written' = [written EXCEPT ![page][o + 1] = b]
    /\ UNCHANGED <<page_table, num_resident, max_resident, num_faults,
                   num_loads, swapfile, fd_offset, mapped, prot, aborted, trace>>
    /\ UNCHANGED sig_vars
    /\ UNCHANGED <<thr_vars, access, call>>

Next == SigSegv \/ SigAlrm \/ AppWrite

Spec == Init /\ [][Next]_vars

\* ------------------------------------------------------- loads and stores
\* MachineSpec: the application executes loads and stores on the pages of
\* the range.  An access the live mapping does not allow raises SIGSEGV, with
\* SEGV_MAPERR for an unmapped address and SEGV_ACCERR for a mapped one; the
\* kernel enters the handler with the signals of handler_mask blocked and
\* restores the mask when the handler returns, after which the instruction
\* is executed again.  The interval timer raises SIGALRM at any time; it is
\* delivered when it is not blocked.
AccessKinds == {"load", "store"}

\* The protection a load and a store need.
Needs(kind) ==
    IF kind = "load" THEN PROT_READ ELSE PROT_READ \cup PROT_WRITE

\* The host raises a trap for an access of this kind to page p.
Traps(p, kind) == ~mapped[p] \/ ~(Needs(kind) \subseteq prot[p])

\* An access traps: SIGSEGV is delivered and sigsegv_handler is entered.
TrapOn(page) ==
    /\ ~aborted
    /\ handling = NoHandler
    /\ SIGSEGV \notin sigmask
    /\ num_faults < MaxFaults
    /\ LET addr == page_to_addr(page) + StoreOffset(page)
           code == IF mapped[page] THEN SEGV_ACCERR ELSE SEGV_MAPERR
       IN  /\ Install(sigsegv_enter(Globals, addr, code))
           /\ handling' = [sig |-> SIGSEGV, addr |-> addr,
                           code |-> code, mask |-> sigmask]
           /\ sigmask' = handler_mask(SIGSEGV, sigmask)
    /\ UNCHANGED <<written, sigpending>>
    /\ UNCHANGED <<thr_vars, access, call>>

FaultRaised ==
    \E page \in Pages, kind \in AccessKinds :
        Traps(page, kind) /\ TrapOn(page)

\* sigsegv_handler runs to its end and returns.
FaultResolved ==
    /\ ~aborted
    /\ handling.sig = SIGSEGV
    /\ \E victim \in choose_victim_page(Globals) :
           Install(sigsegv_resolve(Globals, handling.addr, handling.code,
                                   victim))
    /\ handling' = NoHandler
    /\ sigmask' = handling.mask
    /\ UNCHANGED <<written, sigpending>>
    /\ UNCHANGED <<thr_vars, access, call>>

\* The interval timer expires: SIGALRM is raised.
TimerExpires ==
    /\ ~aborted
    /\ SIGALRM \notin sigpending
    /\ sigpending' = sigpending \cup {SIGALRM}
    /\ UNCHANGED <<page_table, num_resident, max_resident, num_faults,
                   num_loads, swapfile, fd_offset, mapped, prot, mem, aborted,
                   trace, written, sigmask, handling>>
    /\ UNCHANGED <<thr_vars, access, call>>

\* A pending SIGALRM that is not blocked is delivered: sigalrm_handler runs
\* to its end (SIGALRM itself blocked meanwhile) and returns.
AlarmDelivered ==
    /\ ~aborted
    /\ SIGALRM \in sigpending
    /\ SIGALRM \notin sigmask
    /\ Install(sigalrm_handler(Globals))
    /\ sigpending' = sigpending \ {SIGALRM}
    /\ UNCHANGED <<written, sigmask, handling>>
    /\ UNCHANGED <<thr_vars, access, call>>

MachineNext ==
    FaultRaised \/ FaultResolved \/ TimerExpires \/ AlarmDelivered \/ AppWrite

MachineSpec == Init /\ [][MachineNext]_vars

\* ============================================================= AccessSpec
\* The application executes one load or store at a time.  The instruction
\* is retried after every trap it raises, until the live mapping lets it
\* through; the timer may expire at any moment.  An access begins only
\* while three more traps fit under MaxFaults.
TrapsPerAccess == 3

AccessBegins ==
    /\ ~aborted
    /\ access = NoAccess
    /\ handling = NoHandler
    /\ num_faults + TrapsPerAccess <= MaxFaults
    /\ \E page \in Pages, kind \in AccessKinds :
           access' = [page |-> page, kind |-> kind, faults |-> num_faults,
                      loads |-> num_loads,
                      resident |-> page_table[page].resident]
    /\ UNCHANGED <<page_table, num_resident, max_resident, num_faults,
                   num_loads, swapfile, fd_offset, mapped, prot, mem, aborted,
                   trace, written>>
    /\ UNCHANGED <<sig_vars, thr_vars, call>>

\* The access in progress traps.
AccessTraps ==
    /\ access # NoAccess
    /\ Traps(access.page, access.kind)
    /\ TrapOn(access.page)

\* The access in progress is let through: a load reads the page, a store
\* writes its byte; the instruction completes.
AccessCompletes ==
    /\ ~aborted
    /\ access # NoAccess
    /\ handling = NoHandler
    /\ ~Traps(access.page, access.kind)
    /\ IF access.kind = "store"
       THEN \E b \in Bytes :
                LET o == StoreOffset(access.page) IN
                /\ mem' = [mem EXCEPT ![access.page][o + 1] = b]
                /\ written' = [written EXCEPT ![access.page][o + 1] = b]
       ELSE UNCHANGED <<mem, written>>
    /\ access' = NoAccess
    /\ UNCHANGED <<page_table, num_resident, max_resident, num_faults,
                   num_loads, swapfile, fd_offset, mapped, prot, aborted, trace>>
    /\ UNCHANGED <<sig_vars, thr_vars, call>>

AccessNext ==
    \/ AccessBegins \/ AccessTraps \/ FaultResolved \/ AccessCompletes
    \/ TimerExpires \/ AlarmDelivered

AccessSpec == Init /\ [][AccessNext]_vars

\* sigsegv_handler returns: the step of FaultResolved, told by the handler
\* in progress alone.
HandlerReturns ==
    /\ ~aborted
    /\ handling.sig = SIGSEGV
    /\ handling' = NoHandler

\* The processor retries the instruction, a handler that has been entered
\* runs to its return, and an instruction that is let through completes.
AccessLiveSpec ==
    /\ AccessSpec
    /\ WF_vars(AccessTraps)
    /\ WF_handling(HandlerReturns)
    /\ WF_vars(AccessCompletes)

\* ------------------------------------------------------------ direct calls
\* The functions of virtualmem.c are not static: the policy, or a test
\* program, can call them.  ApiSpec follows the handlers while at most
\* MaxApiFaults faults are counted and then one direct call, with every
\* page, every permission and every budget as arguments.  The call is made
\* by the application, outside the handlers: no signal is blocked, the
\* interval timer that vmem_init() started is running, and SIGALRM is
\* delivered between any two statements of the function called, at most
\* MaxCallTicks times in one call.
MaxApiFaults == 3
MaxCallTicks == 1

\* The calls that write one page-table entry, or all of them, and nothing
\* else of the mapper's state.
EntryEvents ==
    {"call clear_page_entry", "call set_page_resident",
     "call set_page_accessed", "call clear_page_accessed",
     "call set_page_dirty", "call clear_page_dirty", "call vmem_init"}

\* The last thing that happened is a direct call.
DirectCall ==
    /\ trace # <<>>
    /\ trace[1].ev \in EntryEvents \cup {"call set_page_permission",
                                         "call map_page", "call unmap_page"}

\* The last thing that happened is a direct call that writes page-table
\* entries only.
EntryCall == trace # <<>> /\ trace[1].ev \in EntryEvents

\* The function the application called has statements left to execute.
InCall == ~aborted /\ call.pc <= Len(call.prog)

\* The application calls a function: the trace starts with the call, and
\* the first statement of the function is the next one.
CallBegins(fn, page, arg, prog) ==
    /\ ~aborted
    /\ ~DirectCall
    /\ Install(Log([Globals EXCEPT !.trace = <<>>], fn, page, arg, <<>>))
    /\ call' = [prog |-> prog, pc |-> 1, ticks |-> 0]
    /\ UNCHANGED written
    /\ UNCHANGED sig_vars
    /\ UNCHANGED <<thr_vars, access>>

CallSetPagePermission ==
    \E page \in Pages, perm \in PagePerms :
        CallBegins("call set_page_permission", page, perm,
                   set_page_permission(page, perm))

CallMapPage ==
    \E page \in Pages, initial_perm \in PagePerms :
        CallBegins("call map_page", page, initial_perm,
                   map_page(page, initial_perm))

CallUnmapPage ==
    \E page \in Pages :
        CallBegins("call unmap_page", page, "", unmap_page(page))

CallClearPageEntry ==
    \E page \in Pages :
        CallBegins("call clear_page_entry", page, "",
                   <<Stmt("clear_page_entry", page, "", 0)>>)

CallSetPageResident ==
    \E page \in Pages :
        CallBegins("call set_page_resident", page, "",
                   <<Stmt("set_page_resident", page, "", 0)>>)

CallSetPageAccessed ==
    \E page \in Pages :
        CallBegins("call set_page_accessed", page, "",
                   <<Stmt("set_page_accessed", page, "", 0)>>)

CallClearPageAccessed ==
    \E page \in Pages :
        CallBegins("call clear_page_accessed", page, "",
                   <<Stmt("clear_page_accessed", page, "", 0)>>)

CallSetPageDirty ==
    \E page \in Pages :
        CallBegins("call set_page_dirty", page, "",
                   <<Stmt("set_page_dirty", page, "", 0)>>)

CallClearPageDirty ==
    \E page \in Pages :
        CallBegins("call clear_page_dirty", page, "",
                   <<Stmt("clear_page_dirty", page, "", 0)>>)

\* vmem_init() called again by a process that has called it before.
CallVmemInit ==
    \E _max_resident \in 0 .. MaxBudget :
        CallBegins("call vmem_init", 0, "", vmem_init(_max_resident))

\* The function called executes its next statement.
CallStep ==
    /\ InCall
    /\ LET r == Step(Globals, call.prog, call.pc)
       IN  /\ Install(r.s)
           /\ call' = [call EXCEPT !.pc = r.pc]
    /\ UNCHANGED written
    /\ UNCHANGED sig_vars
    /\ UNCHANGED <<thr_vars, access>>

\* SIGALRM is delivered between two statements of the function called:
\* sigalrm_handler runs to its end and returns into the function.
CallInterrupted ==
    /\ InCall
    /\ call.ticks < MaxCallTicks
    /\ Install([Globals EXCEPT
                   !.trace = @ \o sigalrm_handler(Globals).trace])
    /\ call' = [call EXCEPT !.ticks = @ + 1]
    /\ UNCHANGED written
    /\ UNCHANGED sig_vars
    /\ UNCHANGED <<thr_vars, access>>

HandlersThenCall ==
    /\ ~DirectCall
    /\ num_faults <= MaxApiFaults
    /\ Next

ApiNext ==
    \/ HandlersThenCall
    \/ CallSetPagePermission \/ CallMapPage \/ CallUnmapPage
    \/ CallClearPageEntry \/ CallSetPageResident
    \/ CallSetPageAccessed \/ CallClearPageAccessed
    \/ CallSetPageDirty \/ CallClearPageDirty
    \/ CallVmemInit
    \/ CallStep \/ CallInterrupted

ApiSpec == Init /\ [][ApiNext]_vars

\* ============================================================ SthreadSpec
\* The thread library at the grain of its statements.  main() allocates the
\* semaphore, creates the threads and starts the scheduler; the running
\* thread then executes one statement at a time, and the timer interrupts
\* it between two statements whenever the scheduler lock is free.  The
\* threads call semaphore_wait, semaphore_signal, sthread_yield,
\* sthread_block, sthread_unblock and sthread_create, and return from their
\* function; called records which of these have been called.  What runs
\* with the scheduler lock free is followed one shared access at a time:
\* all of sthread_create, which never takes the lock, and what
\* semaphore_wait and semaphore_signal execute after the __sthread_unlock()
\* of sthread_block() and sthread_unblock().  A call of malloc() or free()
\* with the lock free is two steps, the call and its return, and the timer
\* can switch to another thread in between.

\* The running thread is at this statement.
At(pc) == run = "running" /\ current # NULL /\ thread[current].pc = pc

\* The running thread calls this library function from its own code.
Begin(fn) ==
    /\ At("idle")
    /\ num_ops < MaxOps
    /\ num_ops' = num_ops + 1
    /\ IF fn = "sthread_unblock"
       THEN /\ num_unblocks < MaxUnblocks
            /\ num_unblocks' = num_unblocks + 1
       ELSE UNCHANGED num_unblocks
    /\ called' = called \cup {fn}

\* The running thread goes on inside the function it has called.
Inside(pc) == At(pc) /\ UNCHANGED <<num_ops, num_unblocks, called>>

NewSemaphore ==
    /\ run = "main"
    /\ ~semp.made
    /\ \E init \in 0 .. MaxInit : semp' = new_semaphore(init)
    /\ UNCHANGED <<thread, current, ready_queue, blocked_queue,
                   scheduler_lock, run, num_ops, num_unblocks,
                   called>>
    /\ UNCHANGED <<vm_vars, sig_vars>>

SthreadCreate ==
    /\ run = "main"
    /\ \E threadp \in Threads :
           /\ thread[threadp].state = ThreadUnused
           /\ \A t \in Threads :
                  t < threadp => thread[t].state # ThreadUnused
           /\ SInstall(sthread_create(SGlobals, threadp))
    /\ UNCHANGED <<num_ops, num_unblocks, called>>
    /\ UNCHANGED <<vm_vars, sig_vars>>

SthreadStart ==
    /\ run = "main"
    /\ SInstall(__sthread_start(SGlobals))
    /\ UNCHANGED <<num_ops, num_unblocks, called>>
    /\ UNCHANGED <<vm_vars, sig_vars>>

\* semaphore_wait: __sthread_lock()
WaitLock ==
    /\ Begin("semaphore_wait")
    /\ semp.made
    /\ SInstall(Goto(__sthread_lock(SGlobals), "wait_test"))
    /\ UNCHANGED <<vm_vars, sig_vars>>

\* semaphore_wait: while (semp->i == 0)
WaitTest ==
    /\ Inside("wait_test")
    /\ SInstall(Goto([SGlobals EXCEPT !.thread[current].seen = semp.i],
                     IF count_is_zero(semp.i)
                     THEN "wait_block" ELSE "wait_decrement"))
    /\ UNCHANGED <<vm_vars, sig_vars>>

\* semaphore_wait: sthread_block(), up to the switch to another thread
WaitBlock ==
    /\ Inside("wait_block")
    /\ SInstall(sthread_block(SGlobals, "wait_enqueue"))
    /\ UNCHANGED <<vm_vars, sig_vars>>

\* sthread_block(): __sthread_unlock() and the return, once resumed
BlockUnlock ==
    /\ Inside("block_unlock")
    /\ SInstall(Goto(__sthread_unlock(SGlobals), thread[current].ret))
    /\ UNCHANGED <<vm_vars, sig_vars>>

\* The statements of semaphore_wait that follow sthread_block() run with
\* the scheduler lock released by sthread_block(): each action below is one
\* access to the semaphore, and the timer can interrupt between two.

\* semaphore_wait: the call of malloc(sizeof(struct thread_node))
WaitMalloc ==
    /\ Inside("wait_enqueue")
    /\ SInstall(heap_enter(SGlobals, "wait_malloc"))
    /\ UNCHANGED <<vm_vars, sig_vars>>

\* semaphore_wait: new_thread = malloc(...), the return of malloc().  It
\* hands out a block that is not in use; a call that has raced with
\* another may hand out the block the other call handed out, abort, or
\* corrupt the heap.  (The node's fields are not initialised; nothing
\* reads them before semaphore_wait has written both.)
WaitMallocReturn ==
    /\ Inside("wait_malloc")
    /\ \/ /\ \E n \in Nodes : semp.node[n].state = NodeUnused
          /\ LET n == CHOOSE m \in Nodes :
                          /\ semp.node[m].state = NodeUnused
                          /\ \A k \in Nodes :
                                 k < m => semp.node[k].state # NodeUnused
             IN  SInstall(Goto(heap_leave(heap_given(
                                   [SGlobals EXCEPT
                                       !.semp.node[n].state = NodeLive,
                                       !.thread[current].new_thread = n],
                                   "wait_malloc", n)),
                               "wait_node_thread"))
       \/ /\ thread[current].raced
          /\ thread[current].clash # NULL
          /\ LET n == thread[current].clash
             IN  SInstall(Goto(heap_leave(heap_given(
                                   [SGlobals EXCEPT
                                       !.semp.node[n].state = NodeLive,
                                       !.thread[current].new_thread = n],
                                   "wait_malloc", n)),
                               "wait_node_thread"))
       \/ /\ thread[current].raced
          /\ \E outcome \in HeapFailures :
                 SInstall([SGlobals EXCEPT !.run = outcome])
    /\ UNCHANGED <<vm_vars, sig_vars>>

\* semaphore_wait: new_thread->thread = sthread_current()
WaitNodeThread ==
    /\ Inside("wait_node_thread")
    /\ IF DanglingNode(SGlobals, thread[current].new_thread)
       THEN SInstall(Undefined(SGlobals, thread[current].new_thread))
       ELSE SInstall(Goto([SGlobals EXCEPT
                              !.semp.node[thread[current].new_thread].thread =
                                  sthread_current(SGlobals)],
                          "wait_node_next"))
    /\ UNCHANGED <<vm_vars, sig_vars>>

\* semaphore_wait: new_thread->next = NULL
WaitNodeNext ==
    /\ Inside("wait_node_next")
    /\ IF DanglingNode(SGlobals, thread[current].new_thread)
       THEN SInstall(Undefined(SGlobals, thread[current].new_thread))
       ELSE SInstall(Goto([SGlobals EXCEPT
                              !.semp.node[thread[current].new_thread].next =
                                  NULL],
                          "wait_head_test"))
    /\ UNCHANGED <<vm_vars, sig_vars>>

\* semaphore_wait: if (semp->head == NULL)
WaitHeadTest ==
    /\ Inside("wait_head_test")
    /\ SInstall(Goto(SGlobals,
                     IF semp.head = NULL
                     THEN "wait_set_head" ELSE "wait_load_tail"))
    /\ UNCHANGED <<vm_vars, sig_vars>>

\* semaphore_wait: semp->head = new_thread
WaitSetHead ==
    /\ Inside("wait_set_head")
    /\ SInstall(Goto([SGlobals EXCEPT
                         !.semp.head = thread[current].new_thread],
                     "wait_load_head"))
    /\ UNCHANGED <<vm_vars, sig_vars>>

\* semaphore_wait: semp->tail = semp->head, the load of semp->head
WaitLoadHead ==
    /\ Inside("wait_load_head")
    /\ SInstall(Goto([SGlobals EXCEPT !.thread[current].loaded = semp.head],
                     "wait_set_tail"))
    /\ UNCHANGED <<vm_vars, sig_vars>>

\* semaphore_wait: semp->tail = semp->head, the store to semp->tail
WaitSetTail ==
    /\ Inside("wait_set_tail")
    /\ SInstall(Goto([SGlobals EXCEPT
                         !.semp.tail = thread[current].loaded,
                         !.thread[current].loaded = 0,
                         !.thread[current].new_thread = NULL],
                     "wait_test"))
    /\ UNCHANGED <<vm_vars, sig_vars>>

\* semaphore_wait: semp->tail->next = new_thread, the load of semp->tail
WaitLoadTail ==
    /\ Inside("wait_load_tail")
    /\ SInstall(Goto([SGlobals EXCEPT !.thread[current].loaded = semp.tail],
                     "wait_link_tail"))
    /\ UNCHANGED <<vm_vars, sig_vars>>

\* semaphore_wait: semp->tail->next = new_thread, the store to the node
WaitLinkTail ==
    /\ Inside("wait_link_tail")
    /\ IF DanglingNode(SGlobals, thread[current].loaded)
       THEN SInstall(Undefined(SGlobals, thread[current].loaded))
       ELSE SInstall(Goto([SGlobals EXCEPT
                              !.semp.node[thread[current].loaded].next =
                                  thread[current].new_thread],
                          "wait_reload_tail"))
    /\ UNCHANGED <<vm_vars, sig_vars>>

\* semaphore_wait: semp->tail = semp->tail->next, the load of semp->tail
WaitReloadTail ==
    /\ Inside("wait_reload_tail")
    /\ SInstall(Goto([SGlobals EXCEPT !.thread[current].loaded = semp.tail],
                     "wait_load_next"))
    /\ UNCHANGED <<vm_vars, sig_vars>>

\* semaphore_wait: semp->tail = semp->tail->next, the load of the next
\* pointer
WaitLoadNext ==
    /\ Inside("wait_load_next")
    /\ IF DanglingNode(SGlobals, thread[current].loaded)
       THEN SInstall(Undefined(SGlobals, thread[current].loaded))
       ELSE SInstall(Goto([SGlobals EXCEPT
                              !.thread[current].loaded =
                                  semp.node[thread[current].loaded].next],
                          "wait_advance_tail"))
    /\ UNCHANGED <<vm_vars, sig_vars>>

\* semaphore_wait: semp->tail = semp->tail->next, the store to semp->tail
WaitAdvanceTail ==
    /\ Inside("wait_advance_tail")
    /\ SInstall(Goto([SGlobals EXCEPT
                         !.semp.tail = thread[current].loaded,
                         !.thread[current].loaded = 0,
                         !.thread[current].new_thread = NULL],
                     "wait_test"))
    /\ UNCHANGED <<vm_vars, sig_vars>>

\* semaphore_wait: semp->i--, the load of the count
WaitLoadCount ==
    /\ Inside("wait_decrement")
    /\ SInstall(Goto([SGlobals EXCEPT !.thread[current].loaded = semp.i],
                     "wait_store_count"))
    /\ UNCHANGED <<vm_vars, sig_vars>>

\* semaphore_wait: semp->i--, the store of the count less one
WaitStoreCount ==
    /\ Inside("wait_store_count")
    /\ SInstall(Goto([SGlobals EXCEPT
                         !.semp.i = thread[current].loaded - 1,
                         !.thread[current].loaded = 0],
                     "wait_unlock"))
    /\ UNCHANGED <<vm_vars, sig_vars>>

\* semaphore_wait: __sthread_unlock() and the return
WaitUnlock ==
    /\ Inside("wait_unlock")
    /\ SInstall(Goto([__sthread_unlock(SGlobals) EXCEPT
                         !.thread[current].seen = 0],
                     "idle"))
    /\ UNCHANGED <<vm_vars, sig_vars>>

\* semaphore_signal: __sthread_lock()
SignalLock ==
    /\ Begin("semaphore_signal")
    /\ semp.made
    /\ SInstall(Goto(__sthread_lock(SGlobals), "signal_increment"))
    /\ UNCHANGED <<vm_vars, sig_vars>>

\* semaphore_signal: semp->i++
SignalIncrement ==
    /\ Inside("signal_increment")
    /\ SInstall(Goto([SGlobals EXCEPT !.semp.i = @ + 1], "signal_head"))
    /\ UNCHANGED <<vm_vars, sig_vars>>

\* semaphore_signal: the test of the head, old_head = semp->head and
\* sthread_unblock(old_head->thread)
SignalHead ==
    /\ Inside("signal_head")
    /\ IF semp.head = NULL
       THEN SInstall(Goto(SGlobals, "signal_unlock"))
       ELSE IF DanglingNode(SGlobals, semp.head)
       THEN SInstall(Undefined(SGlobals, semp.head))
       ELSE SInstall(sthread_unblock(
                         Goto([SGlobals EXCEPT
                                  !.thread[current].old_head = semp.head],
                              "signal_dequeue"),
                         semp.node[semp.head].thread))
    /\ UNCHANGED <<vm_vars, sig_vars>>

\* The statements of semaphore_signal that follow sthread_unblock() run
\* with the scheduler lock released by sthread_unblock().

\* semaphore_signal: semp->head = semp->head->next, the load of semp->head
SignalLoadHead ==
    /\ Inside("signal_dequeue")
    /\ SInstall(Goto([SGlobals EXCEPT !.thread[current].loaded = semp.head],
                     "signal_load_next"))
    /\ UNCHANGED <<vm_vars, sig_vars>>

\* semaphore_signal: semp->head = semp->head->next, the load of the next
\* pointer
SignalLoadNext ==
    /\ Inside("signal_load_next")
    /\ IF DanglingNode(SGlobals, thread[current].loaded)
       THEN SInstall(Undefined(SGlobals, thread[current].loaded))
       ELSE SInstall(Goto([SGlobals EXCEPT
                              !.thread[current].loaded =
                                  semp.node[thread[current].loaded].next],
                          "signal_set_head"))
    /\ UNCHANGED <<vm_vars, sig_vars>>

\* semaphore_signal: semp->head = semp->head->next, the store to semp->head
SignalSetHead ==
    /\ Inside("signal_set_head")
    /\ SInstall(Goto([SGlobals EXCEPT
                         !.semp.head = thread[current].loaded,
                         !.thread[current].loaded = 0],
                     "signal_free"))
    /\ UNCHANGED <<vm_vars, sig_vars>>

\* semaphore_signal: the call of free(old_head)
SignalFreeCall ==
    /\ Inside("signal_free")
    /\ SInstall(heap_enter(SGlobals, "signal_free_return"))
    /\ UNCHANGED <<vm_vars, sig_vars>>

\* semaphore_signal: free(old_head). free() of a node that has been freed
\* before: glibc detects it and aborts, or the heap is corrupted; so for a
\* call that has raced with another.
SignalFree ==
    /\ Inside("signal_free_return")
    /\ \/ IF DanglingNode(SGlobals, thread[current].old_head)
          THEN \E outcome \in HeapFailures :
                   SInstall([SGlobals EXCEPT !.run = outcome])
          ELSE SInstall(Goto(heap_leave(
                                 [SGlobals EXCEPT
                                     !.semp.node[thread[current].old_head].state =
                                         NodeFreed,
                                     !.thread[current].old_head = NULL]),
                             "signal_unlock"))
       \/ /\ thread[current].raced
          /\ \E outcome \in HeapFailures :
                 SInstall([SGlobals EXCEPT !.run = outcome])
    /\ UNCHANGED <<vm_vars, sig_vars>>

\* semaphore_signal: __sthread_unlock() and the return
SignalUnlock ==
    /\ Inside("signal_unlock")
    /\ SInstall(Goto(__sthread_unlock(SGlobals), "idle"))
    /\ UNCHANGED <<vm_vars, sig_vars>>

\* sthread_yield(), up to the switch to another thread
Yield ==
    /\ Begin("sthread_yield")
    /\ SInstall(__sthread_schedule(
                    Goto(__sthread_lock(SGlobals), "yield_unlock")))
    /\ UNCHANGED <<vm_vars, sig_vars>>

\* sthread_yield(): __sthread_unlock() and the return, once resumed
YieldUnlock ==
    /\ Inside("yield_unlock")
    /\ SInstall(Goto(__sthread_unlock(SGlobals), "idle"))
    /\ UNCHANGED <<vm_vars, sig_vars>>

\* A thread calls sthread_block() itself.
Block ==
    /\ Begin("sthread_block")
    /\ SInstall(sthread_block(SGlobals, "idle"))
    /\ UNCHANGED <<vm_vars, sig_vars>>

\* A thread calls sthread_unblock() itself, with NULL or with a pointer
\* that sthread_create has given: the tests of the two assertions, the
\* second of which reads threadp->state.  The lock is free, so the timer
\* can switch threads between a test that fails and the abort.
UnblockAssert ==
    /\ Begin("sthread_unblock")
    /\ \E threadp \in {NULL} \cup {t \in Threads :
               thread[t].state \notin {ThreadUnused, ThreadAllocated}} :
           SInstall(unblock_tested(
                        [SGlobals EXCEPT !.thread[current].arg = threadp],
                        threadp))
    /\ UNCHANGED <<vm_vars, sig_vars>>

\* sthread_unblock(): an assertion has failed, the process aborts.
UnblockAbort ==
    /\ Inside("unblock_abort")
    /\ SInstall([SGlobals EXCEPT !.run = "aborted"])
    /\ UNCHANGED <<vm_vars, sig_vars>>

\* sthread_unblock(): from __sthread_lock() to the return
UnblockRequeue ==
    /\ Inside("unblock_requeue")
    /\ SInstall(unblock_requeue(
                    Goto([SGlobals EXCEPT !.thread[current].arg = NULL],
                         "idle"),
                    thread[current].arg))
    /\ UNCHANGED <<vm_vars, sig_vars>>

\* sthread_create() by a running thread.  It never takes the scheduler
\* lock: the timer can switch to another thread inside its two calls of
\* malloc(), between the stores that initialise the Thread structure, and
\* between the statements of queue_add() and queue_append().

\* The statements of sthread_create() up to the return of the malloc() of
\* the Thread structure.
CreateAllocating ==
    {"create_stack_malloc", "create_thread_call", "create_thread_malloc"}

\* What the fields of a block that malloc() hands out may hold: NULL, the
\* address of a Thread structure there has been, or anything else.
Garbage(s) ==
    {NULL, Wild} \cup {t \in Threads : s.thread[t].state # ThreadUnused}

\* sthread_create: the call of malloc(DEFAULT_STACKSIZE).  (A thread is
\* created only while there is a Thread structure left.)
CreateMallocStack ==
    /\ Begin("sthread_create")
    /\ \E t \in Threads : thread[t].state = ThreadUnused
    /\ SInstall(heap_enter(SGlobals, "create_stack_malloc"))
    /\ UNCHANGED <<vm_vars, sig_vars>>

\* sthread_create: memory = malloc(DEFAULT_STACKSIZE), the return of
\* malloc().  A stack that a call that has raced hands out twice is
\* written by two threads: a corrupted heap.
CreateStackReturn ==
    /\ Inside("create_stack_malloc")
    /\ \/ SInstall(Goto(heap_leave(SGlobals), "create_thread_call"))
       \/ /\ thread[current].raced
          /\ \E outcome \in HeapFailures :
                 SInstall([SGlobals EXCEPT !.run = outcome])
    /\ UNCHANGED <<vm_vars, sig_vars>>

\* sthread_create: the call of malloc(sizeof(Thread))
CreateMallocThread ==
    /\ Inside("create_thread_call")
    /\ SInstall(heap_enter(SGlobals, "create_thread_malloc"))
    /\ UNCHANGED <<vm_vars, sig_vars>>

\* sthread_create: threadp = malloc(sizeof(Thread)), the return of
\* malloc().  It hands out a structure that is not in use, its fields not
\* initialised; a call that has raced with another may hand out the
\* structure the other call handed out, abort, or corrupt the heap.
CreateThreadReturn ==
    /\ Inside("create_thread_malloc")
    /\ \/ \E threadp \in Threads, prev, next \in Garbage(SGlobals) :
              /\ thread[threadp].state = ThreadUnused
              /\ \A t \in Threads :
                     t < threadp => thread[t].state # ThreadUnused
              /\ SInstall(Goto(heap_leave(heap_given(
                                   [SGlobals EXCEPT
                                       !.thread[threadp] =
                                           [NoThread EXCEPT
                                               !.state = ThreadAllocated,
                                               !.prev = prev,
                                               !.next = next],
                                       !.thread[current].arg = threadp],
                                   "create_thread_malloc", threadp)),
                               "create_state"))
       \/ /\ thread[current].raced
          /\ thread[current].clash # NULL
          /\ LET threadp == thread[current].clash
             IN  SInstall(Goto(heap_leave(heap_given(
                                   [SGlobals EXCEPT
                                       !.thread[threadp].state =
                                           IF @ = ThreadFreed
                                           THEN ThreadAllocated ELSE @,
                                       !.thread[current].arg = threadp],
                                   "create_thread_malloc", threadp)),
                               "create_state"))
       \/ /\ thread[current].raced
          /\ \E outcome \in HeapFailures :
                 SInstall([SGlobals EXCEPT !.run = outcome])
    /\ UNCHANGED <<vm_vars, sig_vars>>

\* sthread_create: threadp->state = ThreadReady
CreateState ==
    /\ Inside("create_state")
    /\ IF Dangling(SGlobals, thread[current].arg)
       THEN SInstall(Undefined(SGlobals, thread[current].arg))
       ELSE SInstall(Goto([SGlobals EXCEPT
                              !.thread[thread[current].arg].state =
                                  ThreadReady],
                          "create_context"))
    /\ UNCHANGED <<vm_vars, sig_vars>>

\* sthread_create: threadp->memory = memory; threadp->context =
\* __sthread_initialize_context(...).  The thread of this structure will
\* run its function from the start, on the new stack.
CreateContext ==
    /\ Inside("create_context")
    /\ IF Dangling(SGlobals, thread[current].arg)
       THEN SInstall(Undefined(SGlobals, thread[current].arg))
       ELSE LET threadp == thread[current].arg
            IN  SInstall(Goto([SGlobals EXCEPT
                                  !.thread[threadp] =
                                      [NoThread EXCEPT
                                          !.state = thread[threadp].state,
                                          !.prev = thread[threadp].prev,
                                          !.next = thread[threadp].next]],
                              "create_add"))
    /\ UNCHANGED <<vm_vars, sig_vars>>

\* queue_add in sthread_create: switch (threadp->state)
CreateAdd ==
    /\ Inside("create_add")
    /\ LET threadp == thread[current].arg
       IN  IF Dangling(SGlobals, threadp)
           THEN SInstall(Undefined(SGlobals, threadp))
           ELSE IF thread[threadp].state \in {ThreadReady, ThreadBlocked}
           THEN SInstall(Goto([SGlobals EXCEPT
                                  !.thread[current].queue =
                                      IF thread[threadp].state = ThreadReady
                                      THEN "ready" ELSE "blocked"],
                              "append_test"))
           ELSE SInstall([SGlobals EXCEPT !.run = "corrupted"])
    /\ UNCHANGED <<vm_vars, sig_vars>>

\* queue_append in sthread_create: if (queuep->head == NULL)
AppendTest ==
    /\ Inside("append_test")
    /\ SInstall(Goto(SGlobals,
                     IF Queue(SGlobals, thread[current].queue).head = NULL
                     THEN "append_first" ELSE "append_link"))
    /\ UNCHANGED <<vm_vars, sig_vars>>

\* queue_append: threadp->prev = NULL; threadp->next = NULL
AppendFirst ==
    /\ Inside("append_first")
    /\ IF Dangling(SGlobals, thread[current].arg)
       THEN SInstall(Undefined(SGlobals, thread[current].arg))
       ELSE SInstall(Goto([SGlobals EXCEPT
                              !.thread[thread[current].arg].prev = NULL,
                              !.thread[thread[current].arg].next = NULL],
                          "append_head"))
    /\ UNCHANGED <<vm_vars, sig_vars>>

\* queue_append: queuep->head = threadp
AppendHead ==
    /\ Inside("append_head")
    /\ LET q == thread[current].queue
       IN  SInstall(Goto(WithQueue(SGlobals, q,
                                   [Queue(SGlobals, q) EXCEPT
                                       !.head = thread[current].arg]),
                         "append_only"))
    /\ UNCHANGED <<vm_vars, sig_vars>>

\* queue_append: queuep->tail = threadp, and the return of sthread_create
AppendOnly ==
    /\ Inside("append_only")
    /\ LET q == thread[current].queue
       IN  SInstall(Goto(WithQueue([SGlobals EXCEPT
                                       !.thread[current].arg = NULL,
                                       !.thread[current].queue = "ready"],
                                   q,
                                   [Queue(SGlobals, q) EXCEPT
                                       !.tail = thread[current].arg]),
                         "idle"))
    /\ UNCHANGED <<vm_vars, sig_vars>>

\* queue_append: queuep->tail->next = threadp, the load of queuep->tail
AppendLoadTail ==
    /\ Inside("append_link")
    /\ SInstall(Goto([SGlobals EXCEPT
                         !.thread[current].loaded =
                             Queue(SGlobals, thread[current].queue).tail],
                     "append_link_store"))
    /\ UNCHANGED <<vm_vars, sig_vars>>

\* queue_append: queuep->tail->next = threadp, the store to the tail thread
AppendLink ==
    /\ Inside("append_link_store")
    /\ IF Dangling(SGlobals, thread[current].loaded)
       THEN SInstall(Undefined(SGlobals, thread[current].loaded))
       ELSE SInstall(Goto([SGlobals EXCEPT
                              !.thread[thread[current].loaded].next =
                                  thread[current].arg,
                              !.thread[current].loaded = 0],
                          "append_prev"))
    /\ UNCHANGED <<vm_vars, sig_vars>>

\* queue_append: threadp->prev = queuep->tail, the load of queuep->tail
AppendLoadPrev ==
    /\ Inside("append_prev")
    /\ SInstall(Goto([SGlobals EXCEPT
                         !.thread[current].loaded =
                             Queue(SGlobals, thread[current].queue).tail],
                     "append_prev_store"))
    /\ UNCHANGED <<vm_vars, sig_vars>>

\* queue_append: threadp->prev = queuep->tail, the store to the new thread
AppendPrev ==
    /\ Inside("append_prev_store")
    /\ IF Dangling(SGlobals, thread[current].arg)
       THEN SInstall(Undefined(SGlobals, thread[current].arg))
       ELSE SInstall(Goto([SGlobals EXCEPT
                              !.thread[thread[current].arg].prev =
                                  thread[current].loaded,
                              !.thread[current].loaded = 0],
                          "append_next"))
    /\ UNCHANGED <<vm_vars, sig_vars>>

\* queue_append: threadp->next = NULL
AppendNext ==
    /\ Inside("append_next")
    /\ IF Dangling(SGlobals, thread[current].arg)
       THEN SInstall(Undefined(SGlobals, thread[current].arg))
       ELSE SInstall(Goto([SGlobals EXCEPT
                              !.thread[thread[current].arg].next = NULL],
                          "append_tail"))
    /\ UNCHANGED <<vm_vars, sig_vars>>

\* queue_append: queuep->tail = threadp, and the return of sthread_create
AppendTail ==
    /\ Inside("append_tail")
    /\ LET q == thread[current].queue
       IN  SInstall(Goto(WithQueue([SGlobals EXCEPT
                                       !.thread[current].arg = NULL,
                                       !.thread[current].queue = "ready"],
                                   q,
                                   [Queue(SGlobals, q) EXCEPT
                                       !.tail = thread[current].arg]),
                         "idle"))
    /\ UNCHANGED <<vm_vars, sig_vars>>

\* The thread's function returns: __sthread_finish().  The scheduler frees
\* the thread; while a call of malloc() or free() that the timer has
\* interrupted is in progress, free() may abort or corrupt the heap.
Finish ==
    /\ Begin("__sthread_finish")
    /\ \/ SInstall(__sthread_schedule(
                       [__sthread_lock(SGlobals) EXCEPT
                           !.thread[current].state = ThreadFinished,
                           !.thread[current].pc = "finish_unlock"]))
       \/ /\ InHeap(SGlobals) # {}
          /\ \E outcome \in HeapFailures :
                 SInstall([SGlobals EXCEPT !.run = outcome])
    /\ UNCHANGED <<vm_vars, sig_vars>>

\* The timer interrupts the running thread: its handler takes the scheduler
\* lock when it is free, and then switches to the next ready thread.
TimerTick ==
    /\ run = "running"
    /\ current # NULL
    /\ scheduler_lock = 0
    /\ SInstall(__sthread_schedule(__sthread_lock(SGlobals)))
    /\ UNCHANGED <<num_ops, num_unblocks, called>>
    /\ UNCHANGED <<vm_vars, sig_vars>>

SthreadNext ==
    \/ NewSemaphore \/ SthreadCreate \/ SthreadStart
    \/ WaitLock \/ WaitTest \/ WaitBlock \/ BlockUnlock
    \/ WaitMalloc \/ WaitMallocReturn \/ WaitNodeThread \/ WaitNodeNext
    \/ WaitHeadTest \/ WaitSetHead \/ WaitLoadHead
    \/ WaitSetTail \/ WaitLoadTail \/ WaitLinkTail \/ WaitReloadTail
    \/ WaitLoadNext \/ WaitAdvanceTail
    \/ WaitLoadCount \/ WaitStoreCount \/ WaitUnlock
    \/ SignalLock \/ SignalIncrement \/ SignalHead
    \/ SignalLoadHead \/ SignalLoadNext \/ SignalSetHead
    \/ SignalFreeCall \/ SignalFree
    \/ SignalUnlock
    \/ Yield \/ YieldUnlock \/ Block
    \/ UnblockAssert \/ UnblockAbort \/ UnblockRequeue
    \/ CreateMallocStack \/ CreateStackReturn \/ CreateMallocThread
    \/ CreateThreadReturn \/ CreateState \/ CreateContext \/ CreateAdd
    \/ AppendTest \/ AppendFirst \/ AppendHead \/ AppendOnly
    \/ AppendLoadTail \/ AppendLink \/ AppendLoadPrev \/ AppendPrev
    \/ AppendNext \/ AppendTail
    \/ Finish \/ TimerTick

\* The thread program does not use the virtual memory.
SthreadStartState == Init /\ max_resident = MaxBudget

SthreadSpec == SthreadStartState /\ [][SthreadNext]_vars

\* ================================================================ claims
\* What the properties below read from the state.
ResidentCount == Cardinality({p \in Pages : page_table[p].resident})

\* The last handler invocation was a SIGSEGV.
AfterTrap == trace # <<>> /\ trace[1].ev = "SIGSEGV"

\* The state in which that SIGSEGV was delivered, its address and its code.
Pre == trace[1]
TrapInRange == Pre.page >= vmem_start /\ Pre.page < vmem_end
TrapPage == addr_to_page(Pre.page)
TrapCode == Pre.arg

\* The positions of the trace at which operation ev happened on page p.
Positions(ev, p) ==
    {i \in DOMAIN trace : trace[i].ev = ev /\ trace[i].page = p}

Happened(ev) == \E i \in DOMAIN trace : trace[i].ev = ev

\* C1: after every trap that is resolved (the process is not aborted), the
\* number of page-table entries marked resident is at most max_resident.
C1_ResidentWithinBudget ==
    ~aborted => ResidentCount <= max_resident

\* C1 witness: a budget of at least one page is full and the trap just
\* resolved evicted a page to load another.
C1_Witness ==
    /\ ~aborted
    /\ AfterTrap
    /\ max_resident >= 1
    /\ ResidentCount = max_resident
    /\ Happened("policy_page_unmapped")
    /\ Happened("policy_page_mapped")

\* C2: round trip.  The bytes the application last stored in a page are the
\* bytes of the page while it is resident and the bytes of its swap slot
\* while it is not, through every eviction and reload.
C2_RoundTrip ==
    ~aborted =>
        \A p \in Pages :
            IF page_table[p].resident
            THEN mapped[p] /\ mem[p] = written[p]
            ELSE Slot(swapfile, p) = written[p]

\* C2 witness: the trap just resolved reloaded a page that holds stored
\* bytes (not the zeros of a fresh slot), so the page was written, evicted
\* and read back.
C2_Witness ==
    /\ ~aborted
    /\ AfterTrap
    /\ TrapInRange
    /\ Happened("policy_page_mapped")
    /\ page_table[TrapPage].resident
    /\ ~page_table[TrapPage].dirty
    /\ mem[TrapPage] # ZeroPage
    /\ mem[TrapPage] = written[TrapPage]

\* The recorded permission of page p before and after the operation at
\* position i of the trace, for the operations that write it.
PermBefore(i) == trace[i].pt[trace[i].page].perm
PermAfter(i) ==
    IF trace[i].ev = "set_page_permission" THEN trace[i].arg ELSE PAGEPERM_NONE

PermWrites ==
    {i \in DOMAIN trace :
        /\ trace[i].ev \in {"set_page_permission", "clear_page_entry"}
        /\ PermAfter(i) # PermBefore(i)}

Widening ==
    {<<PAGEPERM_NONE, PAGEPERM_READ>>, <<PAGEPERM_READ, PAGEPERM_RDWR>>}

\* The permission writes unmap_page makes on its way to removing the page:
\* READ for the flush of a dirty page (the write of the page follows at once)
\* and the clearing of the entry.
EvictionWrite(i) ==
    \/ trace[i].ev = "clear_page_entry"
    \/ /\ trace[i].ev = "set_page_permission"
       /\ trace[i].arg = PAGEPERM_READ
       /\ trace[i].pt[trace[i].page].dirty
       /\ i + 1 \in DOMAIN trace
       /\ trace[i + 1].ev = "write"
       /\ trace[i + 1].page = trace[i].page

\* C3 as stated: every change of a page's recorded permission that the core
\* makes is NONE->READ or READ->READ-WRITE.  (Every change happens between a
\* load of the page and its next load.)
C3_OnlyWidening ==
    \A i \in PermWrites : <<PermBefore(i), PermAfter(i)>> \in Widening

\* C3 amended: between the load of a page and its next eviction every
\* change of its recorded permission is NONE->READ or READ->READ-WRITE; the
\* only narrowing is made by the eviction itself (READ before the flush of a
\* dirty page, NONE when the entry is cleared), and a page that stays
\* resident over a trap keeps or widens its permission.
C3_WideningUntilEviction ==
    /\ \A i \in PermWrites :
           \/ <<PermBefore(i), PermAfter(i)>> \in Widening
           \/ EvictionWrite(i)
    /\ (AfterTrap /\ ~aborted) =>
           \A p \in Pages :
               (/\ Pre.pt[p].resident
                /\ page_table[p].resident
                /\ Positions("munmap", p) = {})
               => \/ page_table[p].perm = Pre.pt[p].perm
                  \/ <<Pre.pt[p].perm, page_table[p].perm>> \in Widening

\* C3 witness: the trap just resolved widened a read-only page to
\* read-write.
C3_Witness ==
    /\ ~aborted
    /\ AfterTrap
    /\ \E i \in PermWrites :
           /\ trace[i].ev = "set_page_permission"
           /\ PermBefore(i) = PAGEPERM_READ
           /\ PermAfter(i) = PAGEPERM_RDWR
           /\ page_table[trace[i].page].perm = PAGEPERM_RDWR

\* The positions of the trace at which a page was written to the swap file.
SwapWrites == {j \in DOMAIN trace : trace[j].ev = "write"}

\* C4: an eviction of a clean page writes nothing to the swap file; an
\* eviction of a dirty page writes exactly once, the whole page, at the
\* page's slot, while the page is still mapped and its entry still marked
\* resident (before munmap and before the entry is cleared).
C4_FlushExactlyWhenDirty ==
    \A i \in DOMAIN trace :
        trace[i].ev = "munmap" =>
            LET p == trace[i].page
            IN  IF ~trace[i].pt[p].dirty
                THEN SwapWrites = {}
                ELSE \E j \in SwapWrites :
                        /\ SwapWrites = {j}
                        /\ j < i
                        /\ trace[j].page = p
                        /\ Len(trace[j].data) = PAGE_SIZE
                        /\ trace[j].off = p * PAGE_SIZE
                        /\ trace[j].mapped[p]
                        /\ trace[j].pt[p].resident
                        /\ \A k \in Positions("clear_page_entry", p) : j < k
                        /\ Slot(swapfile, p) = trace[j].data

\* C4 witness: the trap just resolved evicted a dirty page holding stored
\* bytes, and they are in its slot.
C4_Witness ==
    /\ ~aborted
    /\ \E j \in SwapWrites :
           /\ trace[j].data # ZeroPage
           /\ Positions("munmap", trace[j].page) # {}
           /\ Slot(swapfile, trace[j].page) = trace[j].data

\* C5 as stated: whenever choose_victim_page() is called the resident
\* counter equals max_resident, and the page it returns is marked resident.
C5_VictimAskedAtCapacityIsResident ==
    \A i \in DOMAIN trace :
        trace[i].ev = "choose_victim_page" =>
            /\ trace[i].nres = max_resident
            /\ trace[i].pt[trace[i].page].resident

\* The trap just handled: in range, SEGV_MAPERR, on a page not resident.
MaperrOnNonResident ==
    /\ AfterTrap
    /\ TrapInRange
    /\ TrapCode = SEGV_MAPERR
    /\ ~Pre.pt[TrapPage].resident

\* What C6 says of such a trap.
MaperrResolved ==
    LET unmaps == {i \in DOMAIN trace : trace[i].ev = "policy_page_unmapped"}
        maps == Positions("mmap", TrapPage)
    IN  /\ ~aborted
        /\ IF Pre.nres = max_resident
           THEN \E i \in unmaps :
                   /\ unmaps = {i}
                   /\ Pre.pt[trace[i].page].resident
                   /\ \A k \in maps : i < k /\ ~trace[k].pt[trace[i].page].resident
           ELSE unmaps = {} /\ ~Happened("munmap")
        /\ maps # {}
        /\ page_table[TrapPage].resident
        /\ page_table[TrapPage].perm = PAGEPERM_NONE
        /\ num_loads = Pre.loads + 1

\* C6 as stated: an in-range SEGV_MAPERR on a page that is not resident
\* evicts exactly one victim first if the resident counter equals
\* max_resident and none otherwise, and ends with the faulting page
\* resident, permission NONE, and one more load counted.
C6_MaperrEvictsThenLoads ==
    MaperrOnNonResident => MaperrResolved

\* C6 with a budget of at least one page (what the handler does when
\* vmem_init was given a budget the policy can serve).
C6_MaperrEvictsThenLoadsWithBudget ==
    (MaperrOnNonResident /\ max_resident >= 1) => MaperrResolved

\* C7: an in-range SEGV_ACCERR on a resident page p sets p's accessed bit
\* whatever its permission; NONE becomes READ with dirty unchanged, READ
\* becomes READ-WRITE with dirty set, READ-WRITE aborts.  The resident
\* counter, the load counter and every other entry are unchanged, the fault
\* counter grows by one.
C7_AccerrWidens ==
    (/\ AfterTrap
     /\ TrapInRange
     /\ TrapCode = SEGV_ACCERR
     /\ Pre.pt[TrapPage].resident) =>
        LET p == TrapPage
            old == Pre.pt[p]
            new == page_table[p]
        IN  /\ new.accessed
            /\ new.resident
            /\ old.perm = PAGEPERM_NONE =>
                   ~aborted /\ new.perm = PAGEPERM_READ /\ new.dirty = old.dirty
            /\ old.perm = PAGEPERM_READ =>
                   ~aborted /\ new.perm = PAGEPERM_RDWR /\ new.dirty
            /\ old.perm = PAGEPERM_RDWR =>
                   aborted /\ new.perm = PAGEPERM_RDWR /\ new.dirty = old.dirty
            /\ num_resident = Pre.nres
            /\ num_loads = Pre.loads
            /\ num_faults = Pre.faults + 1
            /\ \A q \in Pages \ {p} : page_table[q] = Pre.pt[q]

\* C7 witness: a SEGV_ACCERR on a read-only page was resolved, the page is
\* now read-write and dirty.
C7_Witness ==
    /\ ~aborted
    /\ AfterTrap
    /\ TrapInRange
    /\ TrapCode = SEGV_ACCERR
    /\ Pre.pt[TrapPage].perm = PAGEPERM_READ
    /\ ~Pre.pt[TrapPage].dirty
    /\ page_table[TrapPage].perm = PAGEPERM_RDWR
    /\ page_table[TrapPage].dirty

\* A page table in which every dirty page has permission READ-WRITE.
DirtyIsRdwr(pt) ==
    \A p \in Pages : pt[p].dirty => pt[p].perm = PAGEPERM_RDWR

PolicyHooks ==
    {"choose_victim_page", "policy_page_mapped", "policy_page_unmapped",
     "policy_timer_tick"}

\* C8: after every trap resolution and at every call of a policy hook,
\* every dirty page has permission READ-WRITE.
C8_DirtyIsRdwrWhenObserved ==
    /\ ~aborted => DirtyIsRdwr(page_table)
    /\ \A i \in DOMAIN trace :
           trace[i].ev \in PolicyHooks => DirtyIsRdwr(trace[i].pt)

\* C8 witness: a dirty page was evicted (made READ for its flush) while
\* another dirty page stayed resident, and the policy was told.
C8_Witness ==
    /\ ~aborted
    /\ SwapWrites # {}
    /\ Happened("policy_page_unmapped")
    /\ \E p \in Pages : page_table[p].dirty

\* C9: after every trap resolution a page with permission NONE is not
\* resident, or is resident with its accessed and dirty bits clear.
C9_NoneMeansUntouched ==
    ~aborted =>
        \A p \in Pages :
            page_table[p].perm = PAGEPERM_NONE =>
                \/ ~page_table[p].resident
                \/ ~page_table[p].accessed /\ ~page_table[p].dirty

\* C9 witness: a page touched before, evicted and just loaded again is
\* resident with permission NONE and clear bits, beside a touched page.
C9_Witness ==
    /\ ~aborted
    /\ MaperrOnNonResident
    /\ page_table[TrapPage].resident
    /\ page_table[TrapPage].perm = PAGEPERM_NONE
    /\ written[TrapPage] # ZeroPage
    /\ \E q \in Pages : page_table[q].resident /\ page_table[q].accessed

\* C10: the load counter never exceeds the fault counter, and no step
\* decreases either counter.
C10_LoadsWithinFaults ==
    /\ [](num_loads <= num_faults)
    /\ [][num_loads' >= num_loads /\ num_faults' >= num_faults]_vars

\* C10 witness: the counters have diverged (a trap that loaded nothing).
C10_Witness ==
    /\ num_loads >= 2
    /\ num_loads < num_faults

\* The policy operations the last handler invocation called.
PolicyCalls == {i \in DOMAIN trace : trace[i].ev \in PolicyHooks}

\* C13: a trap whose address is below the start or at or after the end of
\* the range, with either si_code, aborts the process; the page table, the
\* resident counter, the fault counter and the load counter are as they were
\* when the trap was delivered, the live mappings and the swap file
\* position too, and no policy operation is called.
C13_OutOfRangeAborts ==
    (AfterTrap /\ ~TrapInRange) =>
        /\ aborted
        /\ page_table = Pre.pt
        /\ num_resident = Pre.nres
        /\ num_faults = Pre.faults
        /\ num_loads = Pre.loads
        /\ mapped = Pre.mapped
        /\ prot = Pre.prot
        /\ fd_offset = Pre.off
        /\ PolicyCalls = {}
        /\ Len(trace) = 2
        /\ trace[2].ev = "abort"

\* C13 witness: with a page resident and faults counted, a trap at the first
\* address after the range, reported as a permission violation, has been
\* handled.
C13_Witness ==
    /\ AfterTrap
    /\ Pre.page = vmem_end
    /\ TrapCode = SEGV_ACCERR
    /\ aborted
    /\ num_resident >= 1
    /\ num_faults >= 2

\* The direct call the trace starts with: its function, its page, its
\* argument, and the state in which it was made.
CallOf(fn) == trace # <<>> /\ trace[1].ev = fn
CallPage == trace[1].page
CallArg == trace[1].arg

\* The positions of the trace at which set_page_permission changed a
\* protection (mprotect succeeded).
PermCalls == {i \in DOMAIN trace : trace[i].ev = "set_page_permission"}

\* Event j is the first event after event i that is not a timer tick
\* delivered in between.
Follows(i, j) ==
    /\ j > i
    /\ trace[j].ev # "policy_timer_tick"
    /\ \A k \in (i + 1) .. (j - 1) : trace[k].ev = "policy_timer_tick"

\* C14: set_page_permission(page, perm) on a page whose protection cannot be
\* changed (its range is not mapped) aborts and leaves every page-table
\* entry and every live protection as it was; on a mapped page it does not
\* abort, it sets the live protection first and the permission field of
\* that entry after it, and leaves the entry's resident, accessed and dirty
\* bits and every other entry as they were: in every state of the call the
\* table is as it was or differs in that field alone, and differs only
\* once the live protection has been changed; when the call has returned
\* both are changed.  The same holds of every call the handlers, map_page
\* and unmap_page make, at the first event after the call.
C14_ProtectionBeforeTable ==
    /\ CallOf("call set_page_permission") =>
           /\ page_table \in {Pre.pt, [Pre.pt EXCEPT ![CallPage].perm = CallArg]}
           /\ prot \in {Pre.prot,
                        [Pre.prot EXCEPT ![CallPage] = pageperm_to_mmap(CallArg)]}
           /\ page_table # Pre.pt =>
                  prot = [Pre.prot EXCEPT ![CallPage] = pageperm_to_mmap(CallArg)]
           /\ IF ~Pre.mapped[CallPage]
              THEN /\ page_table = Pre.pt
                   /\ prot = Pre.prot
                   /\ ~InCall => aborted
              ELSE /\ ~aborted
                   /\ ~InCall =>
                          /\ prot = [Pre.prot EXCEPT
                                        ![CallPage] = pageperm_to_mmap(CallArg)]
                          /\ page_table =
                                [Pre.pt EXCEPT ![CallPage].perm = CallArg]
    /\ \A i \in PermCalls :
           /\ trace[i].mapped[trace[i].page]
           /\ \A j \in DOMAIN trace :
                  Follows(i, j) =>
                      /\ trace[j].pt =
                            [trace[i].pt EXCEPT ![trace[i].page].perm = trace[i].arg]
                      /\ trace[j].prot =
                            [trace[i].prot EXCEPT
                                ![trace[i].page] = pageperm_to_mmap(trace[i].arg)]

\* C14 witness: set_page_permission was called to give access to a page that
\* is not mapped, beside a resident page that is dirty; the process aborted.
C14_Witness ==
    /\ CallOf("call set_page_permission")
    /\ ~Pre.mapped[CallPage]
    /\ CallArg = PAGEPERM_RDWR
    /\ aborted
    /\ \E q \in Pages : page_table[q].resident /\ page_table[q].dirty

\* The live mappings mp with protections pr are those of page table pt: a
\* resident page is mapped with the protection of its recorded permission,
\* a page that is not resident has no mapping.
ProtectionIsTable(pt, mp, pr) ==
    \A p \in Pages :
        IF pt[p].resident
        THEN mp[p] /\ pr[p] = pageperm_to_mmap(pt[p].perm)
        ELSE ~mp[p]

\* The page table allows an access of this kind to page p.
TableAllows(p, kind) ==
    /\ page_table[p].resident
    /\ Needs(kind) \subseteq pageperm_to_mmap(page_table[p].perm)

\* C15: after every trap resolution, and when map_page and unmap_page are
\* complete (at their call of the policy's hook), the live protection of every
\* resident page is that of its recorded permission and no page that is not
\* resident is mapped; a load or a store traps exactly if the table does not
\* allow it.
C15_LiveProtectionIsTable ==
    /\ ~aborted =>
           /\ ProtectionIsTable(page_table, mapped, prot)
           /\ \A p \in Pages, kind \in {"load", "store"} :
                  Traps(p, kind) <=> ~TableAllows(p, kind)
    /\ \A i \in DOMAIN trace :
           trace[i].ev \in {"policy_page_mapped", "policy_page_unmapped"} =>
               ProtectionIsTable(trace[i].pt, trace[i].mapped, trace[i].prot)

\* C15 witness: the trap just resolved evicted a page and loaded another
\* (no access yet) beside a page that is read-write.
C15_Witness ==
    /\ ~aborted
    /\ Happened("policy_page_unmapped")
    /\ Happened("policy_page_mapped")
    /\ \E p, q \in Pages :
           /\ page_table[p].resident /\ prot[p] = PROT_NONE
           /\ page_table[q].resident /\ prot[q] = PROT_READ \cup PROT_WRITE

\* The events of the trace with one of these names.
Events(names) == {i \in DOMAIN trace : trace[i].ev \in names}

\* C18: map_page called with the resident counter equal to max_resident
\* never returns: it aborts with no mmap, no read of the swap file and no
\* call of a policy hook made, the page table, the live mappings and the
\* file position as they were; unmap_page called on a page that is not
\* marked resident never returns: it aborts with no write to the swap file,
\* no munmap, no clearing of an entry and no call of a policy hook made,
\* the page table, the live mappings, the file position and the resident
\* counter as they were.  This holds in every state of the call, whatever
\* timer ticks are delivered in it.
C18_MapperRefusals ==
    /\ (CallOf("call map_page") /\ Pre.nres = max_resident) =>
           /\ ~InCall => aborted
           /\ Events({"mmap", "read", "set_page_permission",
                      "policy_page_mapped"}) = {}
           /\ page_table = Pre.pt
           /\ mapped = Pre.mapped
           /\ prot = Pre.prot
           /\ fd_offset = Pre.off
           /\ num_loads = Pre.loads
    /\ (CallOf("call unmap_page") /\ ~Pre.pt[CallPage].resident) =>
           /\ ~InCall => aborted
           /\ Events({"write", "munmap", "clear_page_entry",
                      "set_page_permission", "policy_page_unmapped"}) = {}
           /\ page_table = Pre.pt
           /\ mapped = Pre.mapped
           /\ prot = Pre.prot
           /\ fd_offset = Pre.off
           /\ num_resident = Pre.nres

\* C18 witness: with a budget of two pages, both used, map_page was called
\* for a third page and the process aborted.
C18_Witness ==
    /\ CallOf("call map_page")
    /\ max_resident = 2
    /\ Pre.nres = max_resident
    /\ ~Pre.pt[CallPage].resident
    /\ aborted

\* unmap_page was called on a page that is not resident while another page
\* is resident and dirty, and the process aborted.
C18_UnmapRefused ==
    /\ CallOf("call unmap_page")
    /\ ~Pre.pt[CallPage].resident
    /\ \E q \in Pages : Pre.pt[q].resident /\ Pre.pt[q].dirty
    /\ aborted

\* The policy operations of the trace in the order of their calls, each with
\* its page.
RECURSIVE CallsFrom(_)
CallsFrom(i) ==
    IF i > Len(trace) THEN <<>>
    ELSE IF trace[i].ev \in PolicyHooks
         THEN <<<<trace[i].ev, trace[i].page>>>> \o CallsFrom(i + 1)
         ELSE CallsFrom(i + 1)

PolicyCallSeq == CallsFrom(1)

IsPrefix(a, b) == Len(a) <= Len(b) /\ a = SubSeq(b, 1, Len(a))

\* C17, one map: every mmap of a page is followed in the same invocation by
\* exactly one policy_page_mapped of that page, called with the page marked
\* resident, its permission the initial one (NONE) and one more load
\* counted, and there is no policy_page_mapped without it.
MappedHookOncePerMap ==
    \A p \in Pages :
        LET maps == Positions("mmap", p)
            hooks == Positions("policy_page_mapped", p)
        IN  /\ Cardinality(maps) <= 1
            /\ Cardinality(hooks) <= 1
            /\ hooks # {} => maps # {}
            /\ (maps # {} /\ ~aborted) => hooks # {}
            /\ \A i \in maps, j \in hooks :
                   /\ i < j
                   /\ ~trace[i].pt[p].resident
                   /\ trace[j].pt[p].resident
                   /\ trace[j].pt[p].perm = PAGEPERM_NONE
                   /\ trace[j].prot[p] = PROT_NONE
                   /\ trace[j].loads = trace[i].loads + 1
                   /\ page_table[p].resident

\* C17, one unmap: every munmap of a page is followed in the same invocation
\* by exactly one policy_page_unmapped of that page, called with the entry
\* cleared and the resident counter one lower, and there is no
\* policy_page_unmapped without it.
UnmappedHookOncePerUnmap ==
    \A p \in Pages :
        LET unmaps == Positions("munmap", p)
            clears == Positions("clear_page_entry", p)
            hooks == Positions("policy_page_unmapped", p)
        IN  /\ Cardinality(unmaps) <= 1
            /\ Cardinality(hooks) <= 1
            /\ hooks # {} => unmaps # {}
            /\ (unmaps # {} /\ ~aborted) => hooks # {}
            /\ \A i \in unmaps, j \in hooks :
                   /\ i < j
                   /\ \E k \in clears : i < k /\ k < j
                   /\ trace[i].pt[p].resident
                   /\ trace[j].pt[p] = ZeroPTE
                   /\ trace[j].nres = trace[i].nres - 1
                   /\ ~page_table[p].resident

\* C17, alternation: policy_page_mapped(p) is called only for a page that
\* was not resident when the handler was entered, policy_page_unmapped(p)
\* only for one that was, not both in one invocation, and a resident bit
\* differs from its value at entry only for a page the policy was told about.
\* The resident bit of p is therefore "the last notification for p was
\* mapped", and the notifications of p alternate, starting with mapped.
HooksAlternate ==
    trace # <<>> =>
        \A p \in Pages :
            LET mapped_p == Positions("policy_page_mapped", p) # {}
                unmapped_p == Positions("policy_page_unmapped", p) # {}
            IN  /\ mapped_p => ~Pre.pt[p].resident
                /\ unmapped_p => Pre.pt[p].resident
                /\ ~(mapped_p /\ unmapped_p)
                /\ (~mapped_p /\ ~unmapped_p) =>
                       page_table[p].resident = Pre.pt[p].resident

\* C17, order: the policy calls of an address-unmapped trap delivered with
\* the resident counter at max_resident are choose_victim_page,
\* policy_page_unmapped(victim), policy_page_mapped(faulting page), in this
\* order (all three if the trap is resolved, the first of them if the
\* process aborts); below max_resident the only call is
\* policy_page_mapped(faulting page).
HookOrder ==
    (AfterTrap /\ TrapInRange /\ TrapCode = SEGV_MAPERR) =>
        IF Pre.nres = max_resident
        THEN \E v \in Pages :
                LET all == << <<"choose_victim_page", v>>,
                              <<"policy_page_unmapped", v>>,
                              <<"policy_page_mapped", TrapPage>> >>
                IN  /\ IsPrefix(PolicyCallSeq, all)
                    /\ PolicyCallSeq # <<>>
                    /\ ~aborted => PolicyCallSeq = all
        ELSE ~aborted =>
                PolicyCallSeq = << <<"policy_page_mapped", TrapPage>> >>

\* C17: the four statements above.
C17_HooksOnceInOrder ==
    /\ MappedHookOncePerMap
    /\ UnmappedHookOncePerUnmap
    /\ HooksAlternate
    /\ HookOrder

\* C17 witness: a trap at capacity was resolved; the victim had been loaded,
\* written and is now evicted, and the faulting page is one that had been
\* resident before (it holds stored bytes): its second policy_page_mapped.
C17_Witness ==
    /\ ~aborted
    /\ AfterTrap
    /\ Len(PolicyCallSeq) = 3
    /\ \E v \in Pages : Pre.pt[v].dirty /\ Positions("policy_page_unmapped", v) # {}
    /\ Positions("policy_page_mapped", TrapPage) # {}
    /\ written[TrapPage] # ZeroPage

\* C19 as stated: the swap file is exactly NUM_PAGES * PAGE_SIZE bytes long,
\* the sentinel byte written by vmem_init being the final byte of the last
\* slot.
C19_SwapFileExactSize ==
    /\ Len(swapfile) = NUM_PAGES * PAGE_SIZE
    /\ (num_loads = 0 /\ num_faults = 0) =>
           swapfile[NUM_PAGES * PAGE_SIZE] = SentinelByte

\* What vmem_init makes of the file: the NUM_PAGES slots, slot i at byte
\* offset i * PAGE_SIZE, zero until a page is flushed to them, and one more
\* byte after the last slot, the sentinel; no flush changes the length.
C19_SwapFileSlotsAndSentinel ==
    /\ Len(swapfile) = NUM_PAGES * PAGE_SIZE + 1
    /\ swapfile[NUM_PAGES * PAGE_SIZE + 1] = SentinelByte
    /\ \A p \in Pages :
           /\ Len(Slot(swapfile, p)) = PAGE_SIZE
           /\ (num_loads = 0) => Slot(swapfile, p) = ZeroPage

\* sigsegv_handler has been entered and has not returned.
InFaultHandler == handling.sig = SIGSEGV

\* A step in which a pending SIGALRM is delivered (a raised signal stops
\* being pending only by its delivery): policy_timer_tick is called.
TickDelivered == SIGALRM \in sigpending /\ SIGALRM \notin sigpending'

\* C11: while sigsegv_handler is in progress SIGALRM is blocked; no step
\* that delivers a tick to the policy starts or ends inside a fault
\* handler invocation; and a tick raised before or during the invocation
\* stays pending up to the handler's return.
C11_TicksDeferredDuringFaults ==
    /\ [](InFaultHandler => SIGALRM \in sigmask)
    /\ [][TickDelivered => (~InFaultHandler /\ ~InFaultHandler')]_vars
    /\ [][(InFaultHandler /\ SIGALRM \in sigpending)
             => SIGALRM \in sigpending']_vars

\* C11 witness: the timer expired while the handler of an address-unmapped
\* trap at capacity is in progress; the tick is pending.
C11_Witness ==
    /\ InFaultHandler
    /\ handling.code = SEGV_MAPERR
    /\ SIGALRM \in sigpending
    /\ max_resident >= 1
    /\ num_resident = max_resident

\* The policy has been told of the deferred tick after the handler returned.
C11_TickAfterReturn ==
    /\ ~InFaultHandler
    /\ trace # <<>>
    /\ trace[1].ev = "policy_timer_tick"
    /\ trace[1].faults >= 1
    /\ trace[1].nres >= 1

\* C16: when traps come from loads and stores that the live protection does
\* not allow, and the policy names resident victims, a permission-violation
\* trap is never delivered for a page whose recorded permission is
\* READ-WRITE: not when the handler is entered, not when it has returned;
\* the handler of a permission-violation trap never aborts, and a resident
\* read-write page allows every load and store.
C16_NoFaultOnReadWritePage ==
    /\ (InFaultHandler /\ handling.code = SEGV_ACCERR) =>
           page_table[addr_to_page(handling.addr)].perm # PAGEPERM_RDWR
    /\ (AfterTrap /\ TrapInRange /\ TrapCode = SEGV_ACCERR /\ ~InFaultHandler) =>
           /\ Pre.pt[TrapPage].perm # PAGEPERM_RDWR
           /\ ~aborted
    /\ (~aborted /\ ~InFaultHandler) =>
           \A p \in Pages :
               (page_table[p].resident /\ page_table[p].perm = PAGEPERM_RDWR)
                   => \A kind \in AccessKinds : ~Traps(p, kind)

\* C16 witness: a page was made read-write and stored to; the store of
\* another page has since trapped on its read-only permission and been
\* allowed, with both pages read-write now.
C16_Witness ==
    /\ ~aborted
    /\ ~InFaultHandler
    /\ AfterTrap
    /\ TrapCode = SEGV_ACCERR
    /\ Pre.pt[TrapPage].perm = PAGEPERM_READ
    /\ page_table[TrapPage].perm = PAGEPERM_RDWR
    /\ \E q \in Pages \ {TrapPage} :
           /\ page_table[q].perm = PAGEPERM_RDWR
           /\ mem[q] # ZeroPage

\* The entries of the scenario: loaded and not touched, read, written.
LoadedEntry ==
    [resident |-> TRUE, accessed |-> FALSE, dirty |-> FALSE,
     perm |-> PAGEPERM_NONE]
ReadEntry ==
    [resident |-> TRUE, accessed |-> TRUE, dirty |-> FALSE,
     perm |-> PAGEPERM_READ]
WrittenEntry ==
    [resident |-> TRUE, accessed |-> TRUE, dirty |-> TRUE,
     perm |-> PAGEPERM_RDWR]

\* The page table with these entries for pages 0, 1 and 2, page 3 untouched.
Table(e0, e1, e2) ==
    [p \in Pages |->
        IF p = 0 THEN e0 ELSE IF p = 1 THEN e1 ELSE IF p = 2 THEN e2
        ELSE ZeroPTE]

\* The k-th trap since vmem_init(2) has been handled to its return: it was a
\* trap of this code on this page, delivered with this page table and this
\* many loads counted.
ScenarioTrap(k, page, code, table, loads) ==
    /\ max_resident = 2
    /\ ~InFaultHandler
    /\ AfterTrap
    /\ TrapInRange
    /\ num_faults = k
    /\ TrapPage = page
    /\ TrapCode = code
    /\ Pre.pt = table
    /\ Pre.loads = loads

\* The page table after the read of page 1: page 0 written, page 1 read.
TableBeforeEviction == Table(WrittenEntry, ReadEntry, ZeroPTE)

\* The page table after the load of page 2 that evicted victim v.
TableAfterEviction(v) ==
    [TableBeforeEviction EXCEPT ![v] = ZeroPTE, ![2] = LoadedEntry]

\* C12: the scenario with NUM_PAGES = 4 and max_resident = 2, trap by trap.
\* Read of page 0: an address-unmapped trap loads it (NONE), the load traps
\* again and page 0 is READ, the load no longer traps.  Write of page 0: the
\* store traps, page 0 is READ-WRITE and dirty, the store no longer traps.
\* Read of page 1: loaded, then READ, the resident count is 2.  Read of page
\* 2: the address-unmapped trap evicts exactly one of pages 0 and 1 (page 0
\* is flushed to its slot) and loads page 2 with permission NONE; the load
\* traps again, page 2 is READ, the resident count is 2 and the load no
\* longer traps.
C12_Scenario ==
    /\ ScenarioTrap(1, 0, SEGV_MAPERR, Table(ZeroPTE, ZeroPTE, ZeroPTE), 0) =>
           /\ ~aborted
           /\ page_table = Table(LoadedEntry, ZeroPTE, ZeroPTE)
           /\ Traps(0, "load")
           /\ mapped[0]
    /\ ScenarioTrap(2, 0, SEGV_ACCERR, Table(LoadedEntry, ZeroPTE, ZeroPTE), 1) =>
           /\ ~aborted
           /\ page_table = Table(ReadEntry, ZeroPTE, ZeroPTE)
           /\ ~Traps(0, "load")
           /\ Traps(0, "store")
    /\ ScenarioTrap(3, 0, SEGV_ACCERR, Table(ReadEntry, ZeroPTE, ZeroPTE), 1) =>
           /\ ~aborted
           /\ page_table = Table(WrittenEntry, ZeroPTE, ZeroPTE)
           /\ ~Traps(0, "store")
    /\ ScenarioTrap(4, 1, SEGV_MAPERR, Table(WrittenEntry, ZeroPTE, ZeroPTE), 1) =>
           /\ ~aborted
           /\ page_table = Table(WrittenEntry, LoadedEntry, ZeroPTE)
           /\ PolicyCallSeq = << <<"policy_page_mapped", 1>> >>
           /\ Traps(1, "load")
           /\ mapped[1]
    /\ ScenarioTrap(5, 1, SEGV_ACCERR, Table(WrittenEntry, LoadedEntry, ZeroPTE), 2) =>
           /\ ~aborted
           /\ page_table = TableBeforeEviction
           /\ num_resident = 2
           /\ ResidentCount = 2
           /\ ~Traps(1, "load")
    /\ ScenarioTrap(6, 2, SEGV_MAPERR, TableBeforeEviction, 2) =>
           /\ ~aborted
           /\ \E v \in {0, 1} :
                  /\ page_table = TableAfterEviction(v)
                  /\ PolicyCallSeq = << <<"choose_victim_page", v>>,
                                       <<"policy_page_unmapped", v>>,
                                       <<"policy_page_mapped", 2>> >>
                  /\ ~mapped[v]
                  /\ Slot(swapfile, v) = written[v]
           /\ num_resident = 2
           /\ ResidentCount = 2
           /\ prot[2] = PROT_NONE
           /\ Traps(2, "load")
           /\ mapped[2]
    /\ \A v \in {0, 1} :
           ScenarioTrap(7, 2, SEGV_ACCERR, TableAfterEviction(v), 3) =>
               /\ ~aborted
               /\ page_table = [TableAfterEviction(v) EXCEPT ![2] = ReadEntry]
               /\ num_resident = 2
               /\ ResidentCount = 2
               /\ num_loads = 3
               /\ ~Traps(2, "load")

\* C12 witness: the end of the scenario, with page 0 (stored to, dirty) the
\* victim: seven traps, three loads, pages 1 and 2 resident and READ, the
\* bytes stored in page 0 in its slot.
C12_Witness ==
    /\ ScenarioTrap(7, 2, SEGV_ACCERR, TableAfterEviction(0), 3)
    /\ ~aborted
    /\ page_table[2] = ReadEntry
    /\ page_table[1] = ReadEntry
    /\ written[0] # ZeroPage
    /\ Slot(swapfile, 0) = written[0]

\* The end of the scenario with page 1 the victim.
C12_OtherVictim ==
    /\ ScenarioTrap(7, 2, SEGV_ACCERR, TableAfterEviction(1), 3)
    /\ ~aborted
    /\ page_table[0] = WrittenEntry

\* No thread has been woken by a call of sthread_unblock() other than the
\* one inside semaphore_signal, and the threads are those main() created
\* before sthread_start(): the threads interleave waits and signals (and
\* yields, blocks and returns), under any timer interrupts.
OnlySemaphoreWakes == {"sthread_unblock", "sthread_create"} \cap called = {}

\* Thread t is blocked inside semaphore_wait.
BlockedInWait(t) ==
    /\ thread[t].state = ThreadBlocked
    /\ thread[t].pc = "block_unlock"
    /\ thread[t].ret = "wait_enqueue"

ResidentIn(pt) == Cardinality({p \in Pages : pt[p].resident})

\* C29: after every completed map, unmap and trap resolution, num_resident
\* equals the number of page-table entries whose resident bit is set: in
\* every state the handlers and the direct calls of map_page, unmap_page
\* and set_page_permission return to, and in the state in which map_page
\* and unmap_page make their last call, the notification of the policy.
\* (A direct call of set_page_resident or clear_page_entry writes the bit
\* and not the counter; it is none of the operations named.  A call that
\* has statements left has not completed.)
C29_CounterIsResidentCount ==
    /\ (~aborted /\ ~EntryCall /\ ~InCall) => num_resident = ResidentCount
    /\ \A i \in DOMAIN trace :
           trace[i].ev \in {"policy_page_mapped", "policy_page_unmapped"} =>
               trace[i].nres = ResidentIn(trace[i].pt)

\* C29 witness: a direct call of unmap_page() has completed on a process
\* in which traps had made pages resident; a page is still resident.
C29_Witness ==
    /\ ~aborted
    /\ DirectCall
    /\ ~InCall
    /\ trace[1].ev = "call unmap_page"
    /\ Happened("policy_page_unmapped")
    /\ trace[1].nres = 2
    /\ num_resident = 1
    /\ ResidentCount = 1

\* The trap just resolved evicted a page.
Evicted == AfterTrap /\ ~aborted /\ Happened("policy_page_unmapped")

\* C30: the resident count never decreases from one trap resolution to the
\* next, and once it has reached max_resident it is max_resident after
\* every later resolution; a trap evicts a page only when it is delivered
\* with the resident count equal to max_resident, and the same trap then
\* loads the faulting page.
C30_ResidentCountNeverDecreases ==
    /\ [](Evicted =>
              /\ Pre.nres = max_resident
              /\ Positions("policy_page_mapped", TrapPage) # {}
              /\ num_resident = max_resident)
    /\ [][~aborted' =>
              /\ num_resident' >= num_resident
              /\ ResidentCount' >= ResidentCount
              /\ (num_resident = max_resident =>
                      num_resident' = max_resident)]_vars

\* C30 witness: with a budget of two pages, a third and a fourth page have
\* been loaded, each by a trap that evicted a page, and the count is two.
C30_Witness ==
    /\ Evicted
    /\ max_resident = 2
    /\ Pre.nres = 2
    /\ num_loads >= 4
    /\ num_resident = 2
    /\ ResidentCount = 2

\* C23: when unmap_page has done its work (it tells the policy last), the
\* entry of the page it unmapped is all zero: not resident, not accessed,
\* not dirty, permission NONE.  So after every trap resolution every page
\* that is not resident has an all-zero entry, and when map_page has done
\* its work the page it loaded is resident, clean and not accessed.
C23_UnmappedEntriesAreZero ==
    /\ \A i \in DOMAIN trace :
           trace[i].ev = "policy_page_unmapped" =>
               trace[i].pt[trace[i].page] = ZeroPTE
    /\ ~aborted =>
           \A p \in Pages : ~page_table[p].resident => page_table[p] = ZeroPTE
    /\ \A i \in DOMAIN trace :
           trace[i].ev = "policy_page_mapped" =>
               /\ trace[i].pt[trace[i].page].resident
               /\ ~trace[i].pt[trace[i].page].dirty
               /\ ~trace[i].pt[trace[i].page].accessed

\* C23 witness: the trap just resolved evicted a page that was accessed and
\* dirty, whose entry is now all zero, and loaded the faulting page, whose
\* entry is resident and otherwise clear.
C23_Witness ==
    /\ Evicted
    /\ page_table[TrapPage] = LoadedEntry
    /\ \E v \in Pages :
           /\ Positions("policy_page_unmapped", v) # {}
           /\ Pre.pt[v].accessed
           /\ Pre.pt[v].dirty
           /\ Pre.pt[v].perm = PAGEPERM_RDWR
           /\ page_table[v] = ZeroPTE

\* The access in progress has raised this many traps, which have been
\* handled to their return.
AccessAfter(traps) ==
    /\ access # NoAccess
    /\ ~access.resident
    /\ handling = NoHandler
    /\ num_faults - access.faults = traps

\* The access in progress is let through.
LetThrough == ~aborted /\ ~Traps(access.page, access.kind)

\* C22: an access to a page that is not resident raises an address-unmapped
\* trap, which loads the page with permission NONE, and then a permission
\* trap, which makes the page READ; a load is then let through, after
\* exactly two traps and one load of a page; a store raises a third trap,
\* which makes the page READ-WRITE, and is let through after exactly three
\* traps and one load of a page.  With max_resident >= 1 no access aborts
\* the process and every access that begins completes.  (The trap last
\* handled is on record until the timer's handler runs.)
C22_TrapsPerAccess ==
    /\ [](AccessAfter(0) => Traps(access.page, access.kind))
    /\ []((AccessAfter(1) /\ ~aborted) =>
              /\ AfterTrap => /\ TrapCode = SEGV_MAPERR
                              /\ TrapPage = access.page
              /\ page_table[access.page].perm = PAGEPERM_NONE
              /\ num_loads = access.loads + 1
              /\ Traps(access.page, access.kind))
    /\ []((AccessAfter(2) /\ ~aborted) =>
              /\ AfterTrap => /\ TrapCode = SEGV_ACCERR
                              /\ TrapPage = access.page
                              /\ Pre.pt[access.page].perm = PAGEPERM_NONE
              /\ page_table[access.page].perm = PAGEPERM_READ
              /\ num_loads = access.loads + 1
              /\ Traps(access.page, access.kind) <=> access.kind = "store")
    /\ []((AccessAfter(3) /\ ~aborted) =>
              /\ access.kind = "store"
              /\ AfterTrap => /\ TrapCode = SEGV_ACCERR
                              /\ TrapPage = access.page
                              /\ Pre.pt[access.page].perm = PAGEPERM_READ
              /\ page_table[access.page].perm = PAGEPERM_RDWR
              /\ num_loads = access.loads + 1
              /\ ~Traps(access.page, access.kind))
    /\ [](max_resident >= 1 => ~aborted)
    /\ (access # NoAccess /\ max_resident >= 1)
           ~> (access = NoAccess /\ ~aborted)

\* C22 witness: a store to a page that was not resident is let through
\* after three traps and one load; an earlier access had filled the budget,
\* so the first of the three traps evicted a page.
C22_Witness ==
    /\ AccessAfter(3)
    /\ AfterTrap
    /\ LetThrough
    /\ access.kind = "store"
    /\ access.faults > 0
    /\ num_loads = access.loads + 1
    /\ num_resident = max_resident
    /\ page_table[access.page].dirty

\* A load of a page that was not resident is let through after two traps.
C22_LoadLetThrough ==
    /\ AccessAfter(2)
    /\ LetThrough
    /\ access.kind = "load"
    /\ num_loads = access.loads + 1

\* The threads in state ThreadRunning.
RunningThreads == {t \in Threads : thread[t].state = ThreadRunning}

\* C24: while the threads run (after every return of the scheduler, until
\* the running thread marks itself blocked or finished and calls it again),
\* exactly one thread is in state ThreadRunning and current points to it, for
\* every interleaving of create, yield, block, unblock, finish, the
\* semaphore calls and the timer: with the timer switching threads inside
\* the calls of malloc() and between the stores of sthread_create, and with
\* a Thread structure that malloc() has handed to two creators.  (A
\* structure whose state sthread_create has not stored yet is no thread.)
C24_OneRunningThread ==
    run = "running" =>
        /\ current # NULL
        /\ RunningThreads = {current}

\* C24 witness: threads have been created by main and by threads, have
\* blocked, been unblocked and finished; a thread is running, and a ready
\* thread that the timer interrupted inside sthread_create, after malloc()
\* handed it the structure of the running thread, is about to store
\* ThreadReady into that structure.
C24_Witness ==
    /\ run = "running"
    /\ {"sthread_create", "sthread_block", "sthread_unblock",
        "__sthread_finish"} \subseteq called
    /\ RunningThreads = {current}
    /\ \E t \in Threads :
           /\ thread[t].state = ThreadReady
           /\ thread[t].pc = "create_state"
           /\ thread[t].arg = current

\* The threads met on the way from this one along the next pointers, in at
\* most n steps.
RECURSIVE Walk(_, _, _)
Walk(s, threadp, n) ==
    IF threadp \notin Threads \/ n = 0 THEN {}
    ELSE {threadp} \cup Walk(s, s.thread[threadp].next, n - 1)

\* The threads linked into the queue of this name.
Linked(q) == Walk(SGlobals, Queue(SGlobals, q).head, MaxThreads)

\* A thread is inside sthread_create().
Creating ==
    \E t \in Threads :
        thread[t].pc \in CreateAllocating \cup
                         {"create_state", "create_context", "create_add",
                          "append_test", "append_first", "append_head",
                          "append_only", "append_link", "append_link_store",
                          "append_prev", "append_prev_store",
                          "append_next", "append_tail"}

\* C25: while threads run and none of them is inside sthread_create(),
\* every thread linked into the ready queue is ThreadReady, every thread
\* linked into the blocked queue is ThreadBlocked, no thread is linked into
\* both queues, and the running thread is linked into neither.
C25_QueuesMatchStates ==
    (run = "running" /\ ~Creating) =>
        /\ \A t \in Linked("ready") : thread[t].state = ThreadReady
        /\ \A t \in Linked("blocked") : thread[t].state = ThreadBlocked
        /\ Linked("ready") \cap Linked("blocked") = {}
        /\ current \notin Linked("ready") \cup Linked("blocked")

\* The scheduler ends the process at this step.
Exits == run = "running" /\ run' \in {"completed", "deadlocked"}

\* C26: the scheduler goes on only with a thread to run; when it exits the
\* ready queue is empty, it reports completion exactly when the blocked
\* queue is empty too, and deadlock otherwise; no thread is ThreadBlocked
\* when completion is reported and none is ThreadReady when deadlock is.
C26_ExitReportsQueues ==
    [][/\ run' = "running" => current' # NULL
       /\ Exits =>
              /\ queue_empty(ready_queue')
              /\ run' = "completed" <=> queue_empty(blocked_queue')
              /\ run' = "completed" =>
                     \A t \in Threads : thread'[t].state # ThreadBlocked
              /\ run' = "deadlocked" =>
                     \A t \in Threads : thread'[t].state # ThreadReady]_vars

\* What holds of the exit: it is decided by the two queue heads, and no
\* thread is ThreadBlocked when completion is reported.
C26_ExitReportsQueueHeads ==
    [][/\ run' = "running" => current' # NULL
       /\ Exits =>
              /\ queue_empty(ready_queue')
              /\ run' = "completed" <=> queue_empty(blocked_queue')
              /\ run' = "completed" =>
                     \A t \in Threads : thread'[t].state # ThreadBlocked]_vars

\* The number of threads ahead of this one on the way from threadp along
\* the next pointers.
RECURSIVE Ahead(_, _, _, _)
Ahead(s, threadp, t, n) ==
    IF threadp = t \/ threadp \notin Threads \/ n = 0 THEN 0
    ELSE 1 + Ahead(s, s.thread[threadp].next, t, n - 1)

\* The threads ahead of a thread of the ready queue, before and after a step.
AheadOf(t) == Ahead(SGlobals, ready_queue.head, t, MaxThreads)
AheadOfNext(t) == Ahead(SGlobals', ready_queue'.head, t, MaxThreads)

\* sthread_create() has allocated this thread and not yet returned.
InCreate(t) ==
    \E u \in Threads :
        /\ thread[u].arg = t
        /\ thread[u].pc \in {"create_state", "create_context", "create_add",
                             "append_test", "append_first", "append_head",
                             "append_only", "append_link",
                             "append_link_store", "append_prev",
                             "append_prev_store", "append_next",
                             "append_tail"}

\* The ready queue keeps its order: a thread that leaves it was its head and
\* is the thread that runs next, and a thread that stays has no more threads
\* ahead of it than before, and one fewer when the head was taken.
FifoStep ==
    (run = "running" /\ run' = "running") =>
        \A t \in Linked("ready") :
            IF t \in Linked("ready")'
            THEN /\ AheadOfNext(t) <= AheadOf(t)
                 /\ (ready_queue.head \notin Linked("ready")' /\ AheadOf(t) > 0)
                        => AheadOfNext(t) = AheadOf(t) - 1
            ELSE t = ready_queue.head /\ current' = t

\* A thread that is ThreadReady has a place in the ready queue.
ReadyIsQueued ==
    run \in {"running", "completed", "deadlocked"} =>
        \A t \in Threads :
            (thread[t].state = ThreadReady /\ ~InCreate(t))
                => t \in Linked("ready")

\* C27: ready threads run in the order in which they were queued, and every
\* ready thread has a place in the queue, so that it runs after as many
\* scheduling decisions as there were threads ahead of it.
C27_FifoNoStarvation == [](ReadyIsQueued) /\ [][FifoStep]_vars

\* The order of the ready queue as long as no running thread has called
\* sthread_create() or sthread_unblock() itself.
C27_FifoOrderWithoutCreate ==
    [][({"sthread_create", "sthread_unblock"} \cap called' = {})
           => FifoStep]_vars

\* Every ready thread is queued as long as no running thread has called
\* sthread_create() or sthread_unblock() itself.
C27_ReadyIsQueuedWithoutCreate ==
    ({"sthread_create", "sthread_unblock"} \cap called = {}) => ReadyIsQueued

\* The statements of semaphore_wait and semaphore_signal between the first
\* __sthread_lock() and the final __sthread_unlock().
SemaphoreBody ==
    {"wait_test", "wait_block", "wait_enqueue", "wait_malloc",
     "wait_node_thread", "wait_node_next", "wait_head_test",
     "wait_set_head", "wait_load_head", "wait_set_tail", "wait_load_tail",
     "wait_link_tail", "wait_reload_tail", "wait_load_next",
     "wait_advance_tail", "wait_decrement", "wait_store_count",
     "wait_unlock", "signal_increment", "signal_head", "signal_dequeue",
     "signal_load_next", "signal_set_head", "signal_free",
     "signal_free_return", "signal_unlock"}

\* C28: semaphore_wait and semaphore_signal keep the scheduler lock from
\* their first __sthread_lock() to their final __sthread_unlock(), also
\* after the sthread_block() and sthread_unblock() they call: a thread that
\* executes inside one of them holds the lock and is the running thread, so
\* that no other thread runs before it has released the lock.
C28_LockHeldThroughout ==
    run = "running" =>
        \A t \in Threads :
            thread[t].pc \in SemaphoreBody =>
                /\ scheduler_lock = 1
                /\ current = t

\* The lock is held as long as no thread has returned from the
\* sthread_block() of semaphore_wait, which takes a direct sthread_unblock()
\* or an sthread_create() that queues the Thread structure of the waiter.
C28_LockHeldUntilWoken == OnlySemaphoreWakes => C28_LockHeldThroughout

\* The threads of the nodes met on the way from this node along the next
\* pointers, in at most n steps.
RECURSIVE NodeWalk(_, _)
NodeWalk(nodep, n) ==
    IF nodep = NULL \/ n = 0 THEN {}
    ELSE {semp.node[nodep].thread} \cup NodeWalk(semp.node[nodep].next, n - 1)

\* The threads in the semaphore's queue of blocked threads.
SemaphoreQueue == NodeWalk(semp.head, MaxNodes)

\* The running thread executes the head test of semaphore_signal.
SignalStep ==
    /\ run = "running"
    /\ current # NULL
    /\ thread[current].pc = "signal_head"
    /\ thread'[current].pc # "signal_head"

\* A thread blocked in semaphore_wait is in the semaphore's queue.
WaiterIsQueued ==
    run = "running" =>
        \A t \in Threads : BlockedInWait(t) => t \in SemaphoreQueue

\* A semaphore_signal issued while threads are blocked in semaphore_wait
\* moves the one at the head of the semaphore's queue to the ready queue.
SignalWakesWaiter ==
    (SignalStep /\ \E t \in Threads : BlockedInWait(t)) =>
        /\ semp.head # NULL
        /\ BlockedInWait(semp.node[semp.head].thread)
        /\ thread'[semp.node[semp.head].thread].state = ThreadReady

\* C21: a thread blocked in semaphore_wait is in the semaphore's queue of
\* blocked threads, and a semaphore_signal on the semaphore unblocks the
\* longest-waiting such thread, so that a blocked waiter for which a signal
\* is issued returns from semaphore_wait.
C21_SignalUnblocksWaiter == [](WaiterIsQueued) /\ [][SignalWakesWaiter]_vars

\* What a signal finds instead: a thread blocked in semaphore_wait for the
\* first time is not in the semaphore's queue, and a signal issued while no
\* thread has called sthread_unblock() itself finds the queue empty and
\* wakes no thread.
C21_SignalWakesNobody ==
    /\ [](run = "running" =>
              \A t \in Threads :
                  (BlockedInWait(t) /\ OnlySemaphoreWakes)
                      => t \notin SemaphoreQueue)
    /\ [][(SignalStep /\ OnlySemaphoreWakes') =>
              /\ semp.head = NULL
              /\ \A t \in Threads :
                     thread[t].state = ThreadBlocked
                         => thread'[t].state = ThreadBlocked]_vars

\* The queues match the states as long as no running thread has called
\* sthread_create().
C25_QueuesMatchStatesWithoutCreate ==
    (run = "running" /\ "sthread_create" \notin called) =>
        /\ \A t \in Linked("ready") : thread[t].state = ThreadReady
        /\ \A t \in Linked("blocked") : thread[t].state = ThreadBlocked
        /\ Linked("ready") \cap Linked("blocked") = {}
        /\ current \notin Linked("ready") \cup Linked("blocked")

====
